---- MODULE Spec2Model ----
(***************************************************************************)
(* Workflow execution engine of AITuberFlow (apps/server/engine):          *)
(* WorkflowExecutor, its per-workflow tables, the asyncio tasks it spawns  *)
(* and the graph algorithms that order node execution.                     *)
(***************************************************************************)
EXTENDS Integers, Sequences, FiniteSets, TLC

(***************************************************************************)
(* Bounds of the model and program constants                               *)
(***************************************************************************)
\* longest connection list of a graph handed to the graph algorithms
MaxConns == 3

\* node ids used in graphs
NodeIds == {"n1", "n2", "n3"}

\* executor.py: SOURCE_NODE_TYPES
SOURCE_NODE_TYPES == {"twitch-chat", "youtube-chat", "timer"}

\* node types that occur in the graphs of the model
NodeTypes == {"start", "timer", "text-transform"}

(***************************************************************************)
(* Sequence helpers                                                        *)
(***************************************************************************)
InSeq(x, s) == \E i \in 1..Len(s) : s[i] = x

SeqToSet(s) == {s[i] : i \in 1..Len(s)}

IndexOf(x, s) == CHOOSE i \in 1..Len(s) : s[i] = x

NoDuplicates(s) == \A i, j \in 1..Len(s) : s[i] = s[j] => i = j

\* the elements of s that satisfy membership in S, in the order of s
RECURSIVE FilterIn(_, _)
FilterIn(s, S) ==
  IF s = <<>> THEN <<>>
  ELSE IF Head(s) \in S THEN <<Head(s)>> \o FilterIn(Tail(s), S)
       ELSE FilterIn(Tail(s), S)

\* all orders in which the elements of a set can be listed
RECURSIVE Perms(_)
Perms(S) ==
  IF S = {} THEN {<<>>}
  ELSE UNION {{<<x>> \o p : p \in Perms(S \ {x})} : x \in S}

\* all sequences over S of length at most n
RECURSIVE SeqsUpTo(_, _)
SeqsUpTo(S, n) ==
  IF n = 0 THEN {<<>>}
  ELSE LET shorter == SeqsUpTo(S, n - 1)
       IN shorter \cup {Append(s, x) : s \in {t \in shorter : Len(t) = n - 1}, x \in S}

(***************************************************************************)
(* Graph algorithms (executor.py)                                          *)
(* A node is [id, type]; a connection is [from, to] (the node ids of its   *)
(* two endpoints).  Dictionaries are functions; where the code depends on  *)
(* the order of a dictionary or a list, the order is kept as a sequence.   *)
(***************************************************************************)
NodeIdList(nodes) == [i \in 1..Len(nodes) |-> nodes[i].id]

NodeOf(nodes, node_id) == nodes[CHOOSE i \in 1..Len(nodes) : nodes[i].id = node_id]

\* adjacency.get(node_id, [])
AdjGet(adjacency, node_id) ==
  IF node_id \in DOMAIN adjacency THEN adjacency[node_id] ELSE <<>>

\* _build_adjacency: no duplicates in a successor list
RECURSIVE BuildAdjacencyLoop(_, _)
BuildAdjacencyLoop(adjacency, connections) ==
  IF connections = <<>> THEN adjacency
  ELSE LET conn == Head(connections)
       IN IF conn.from \in DOMAIN adjacency /\ ~InSeq(conn.to, adjacency[conn.from])
          THEN BuildAdjacencyLoop([adjacency EXCEPT ![conn.from] = Append(@, conn.to)],
                                  Tail(connections))
          ELSE BuildAdjacencyLoop(adjacency, Tail(connections))

BuildAdjacency(nodes, connections) ==
  BuildAdjacencyLoop([nid \in SeqToSet(NodeIdList(nodes)) |-> <<>>], connections)

\* a BFS that lists a node again each time it is met
RECURSIVE DownstreamLoopListsRevisits(_, _, _, _)
DownstreamLoopListsRevisits(queue, visited, result, adjacency) ==
  IF queue = <<>> THEN result
  ELSE LET node_id == Head(queue)
       IN IF node_id \in visited
          THEN DownstreamLoopListsRevisits(Tail(queue), visited, Append(result, node_id),
                                           adjacency)
          ELSE DownstreamLoopListsRevisits(Tail(queue) \o AdjGet(adjacency, node_id),
                                           visited \cup {node_id},
                                           Append(result, node_id), adjacency)

\* _get_downstream_nodes: BFS from the successors of source_id
RECURSIVE DownstreamLoop(_, _, _, _)
DownstreamLoop(queue, visited, result, adjacency) ==
  IF queue = <<>> THEN result
  ELSE LET node_id == Head(queue)
       IN IF node_id \in visited
          THEN DownstreamLoop(Tail(queue), visited, result, adjacency)
          ELSE DownstreamLoop(Tail(queue) \o AdjGet(adjacency, node_id),
                              visited \cup {node_id},
                              Append(result, node_id), adjacency)

GetDownstreamNodes(source_id, adjacency) ==
  DownstreamLoop(AdjGet(adjacency, source_id), {}, <<>>, adjacency)

\* the inner loop of Kahn's algorithm: for neighbor in adjacency.get(node_id, [])
\* returns <<queue, in_degree>>
RECURSIVE KahnNeighbors(_, _, _)
KahnNeighbors(neighbors, queue, in_degree) ==
  IF neighbors = <<>> THEN <<queue, in_degree>>
  ELSE LET neighbor == Head(neighbors)
       IN IF neighbor \in DOMAIN in_degree
          THEN LET deg == in_degree[neighbor] - 1
               IN KahnNeighbors(Tail(neighbors),
                                IF deg = 0 THEN Append(queue, neighbor) ELSE queue,
                                [in_degree EXCEPT ![neighbor] = deg])
          ELSE KahnNeighbors(Tail(neighbors), queue, in_degree)

\* Kahn's algorithm: while queue: node_id = queue.pop(0); order.append(...)
RECURSIVE KahnLoop(_, _, _, _)
KahnLoop(queue, order, in_degree, adjacency) ==
  IF queue = <<>> THEN order
  ELSE LET node_id == Head(queue)
           step == KahnNeighbors(AdjGet(adjacency, node_id), Tail(queue), in_degree)
       IN KahnLoop(step[1], Append(order, node_id), step[2], adjacency)

\* in-degree of the downstream nodes, counting the connections from the
\* source or from another downstream node
RECURSIVE InDegreeFromLoop(_, _, _, _)
InDegreeFromLoop(in_degree, connections, source_id, downstream_ids) ==
  IF connections = <<>> THEN in_degree
  ELSE LET conn == Head(connections)
       IN IF conn.to \in DOMAIN in_degree
             /\ (conn.from = source_id \/ InSeq(conn.from, downstream_ids))
          THEN InDegreeFromLoop([in_degree EXCEPT ![conn.to] = @ + 1],
                                Tail(connections), source_id, downstream_ids)
          ELSE InDegreeFromLoop(in_degree, Tail(connections), source_id, downstream_ids)

\* "Nodes directly connected to source have in_degree adjusted": set to 0
ResetDirect(in_degree, direct) ==
  [nid \in DOMAIN in_degree |-> IF InSeq(nid, direct) THEN 0 ELSE in_degree[nid]]

\* the list [nid for nid, deg in in_degree.items() if deg == 0], keys in key_order
ZeroDegree(key_order, in_degree) ==
  FilterIn(key_order, {nid \in DOMAIN in_degree : in_degree[nid] = 0})

\* _get_execution_order_from: the ids of the returned nodes, in order
GetExecutionOrderFrom(source_id, nodes, connections, adjacency) ==
  LET downstream_ids == GetDownstreamNodes(source_id, adjacency)
  IN IF downstream_ids = <<>> THEN <<>>
     ELSE LET counted == InDegreeFromLoop([nid \in SeqToSet(downstream_ids) |-> 0],
                                          connections, source_id, downstream_ids)
              in_degree == ResetDirect(counted, AdjGet(adjacency, source_id))
          IN KahnLoop(ZeroDegree(downstream_ids, in_degree), <<>>, in_degree, adjacency)

\* _get_execution_order, "Build adjacency list": successor lists keep one
\* entry per connection, in_degree counts one per connection
RECURSIVE LinearAdjacencyLoop(_, _, _)
LinearAdjacencyLoop(adjacency, in_degree, connections) ==
  IF connections = <<>> THEN <<adjacency, in_degree>>
  ELSE LET conn == Head(connections)
       IN IF conn.from \in DOMAIN adjacency /\ conn.to \in DOMAIN in_degree
          THEN LinearAdjacencyLoop([adjacency EXCEPT ![conn.from] = Append(@, conn.to)],
                                   [in_degree EXCEPT ![conn.to] = @ + 1],
                                   Tail(connections))
          ELSE LinearAdjacencyLoop(adjacency, in_degree, Tail(connections))

\* entry points that add the in-degree-0 nodes to the start nodes
EntryPointsBoth(nodes, in_degree) ==
  LET ids == NodeIdList(nodes)
      start_ids == {nodes[i].id : i \in {j \in 1..Len(nodes) : nodes[j].type = "start"}}
  IN FilterIn(ids, start_ids \cup {nid \in DOMAIN in_degree : in_degree[nid] = 0})

\* _get_execution_order, "Determine entry points"
EntryPoints(nodes, in_degree) ==
  LET ids == NodeIdList(nodes)
      start_nodes == FilterIn(ids, {nodes[i].id : i \in {j \in 1..Len(nodes) : nodes[j].type = "start"}})
  IN IF Len(start_nodes) > 0 THEN start_nodes
     ELSE ZeroDegree(ids, in_degree)

\* _get_execution_order, "Find all nodes reachable from entry points using BFS"
RECURSIVE ReachableLoop(_, _, _)
ReachableLoop(queue, reachable, adjacency) ==
  IF queue = <<>> THEN reachable
  ELSE LET node_id == Head(queue)
       IN IF node_id \in reachable
          THEN ReachableLoop(Tail(queue), reachable, adjacency)
          ELSE ReachableLoop(Tail(queue) \o FilterIn(AdjGet(adjacency, node_id),
                                                      NodeIds \ reachable),
                             reachable \cup {node_id}, adjacency)

\* an in-degree that also counts the connections from unreachable nodes
RECURSIVE InDegreeLoopAnyFrom(_, _)
InDegreeLoopAnyFrom(filtered_in_degree, connections) ==
  IF connections = <<>> THEN filtered_in_degree
  ELSE LET conn == Head(connections)
       IN IF conn.to \in DOMAIN filtered_in_degree
          THEN InDegreeLoopAnyFrom([filtered_in_degree EXCEPT ![conn.to] = @ + 1],
                                   Tail(connections))
          ELSE InDegreeLoopAnyFrom(filtered_in_degree, Tail(connections))

\* _get_execution_order, "Recalculate in_degree for reachable nodes only"
RECURSIVE FilteredInDegreeLoop(_, _)
FilteredInDegreeLoop(filtered_in_degree, connections) ==
  IF connections = <<>> THEN filtered_in_degree
  ELSE LET conn == Head(connections)
       IN IF conn.from \in DOMAIN filtered_in_degree /\ conn.to \in DOMAIN filtered_in_degree
          THEN FilteredInDegreeLoop([filtered_in_degree EXCEPT ![conn.to] = @ + 1],
                                    Tail(connections))
          ELSE FilteredInDegreeLoop(filtered_in_degree, Tail(connections))

\* _get_execution_order: the ids of the returned nodes, in order.  reachable is
\* a Python set; set_order is the order in which the build iterates over it.
GetExecutionOrder(nodes, connections, set_order) ==
  IF nodes = <<>> THEN <<>>
  ELSE LET ids == SeqToSet(NodeIdList(nodes))
           built == LinearAdjacencyLoop([nid \in ids |-> <<>>], [nid \in ids |-> 0], connections)
           adjacency == built[1]
           entry_points == EntryPoints(nodes, built[2])
       IN IF entry_points = <<>> THEN <<>>
          ELSE LET reachable == ReachableLoop(entry_points, {}, adjacency)
                   filtered_in_degree == FilteredInDegreeLoop([nid \in reachable |-> 0], connections)
               IN KahnLoop(ZeroDegree(FilterIn(set_order, reachable), filtered_in_degree),
                           <<>>, filtered_in_degree, adjacency)

\* _filter_subgraph, "Build adjacency list": one entry per connection
RECURSIVE SubgraphAdjacencyLoop(_, _)
SubgraphAdjacencyLoop(adjacency, connections) ==
  IF connections = <<>> THEN adjacency
  ELSE LET conn == Head(connections)
       IN IF conn.from \in DOMAIN adjacency
          THEN SubgraphAdjacencyLoop([adjacency EXCEPT ![conn.from] = Append(@, conn.to)],
                                     Tail(connections))
          ELSE SubgraphAdjacencyLoop(adjacency, Tail(connections))

\* the inner loop of the BFS of _filter_subgraph: returns <<queue, reachable>>
RECURSIVE SubgraphNeighbors(_, _, _)
SubgraphNeighbors(neighbors, queue, reachable) ==
  IF neighbors = <<>> THEN <<queue, reachable>>
  ELSE LET neighbor == Head(neighbors)
       IN IF neighbor \notin reachable
          THEN SubgraphNeighbors(Tail(neighbors), Append(queue, neighbor),
                                 reachable \cup {neighbor})
          ELSE SubgraphNeighbors(Tail(neighbors), queue, reachable)

\* _filter_subgraph, "BFS to find all reachable nodes from start_node_id"
RECURSIVE SubgraphLoop(_, _, _)
SubgraphLoop(queue, reachable, adjacency) ==
  IF queue = <<>> THEN reachable
  ELSE LET step == SubgraphNeighbors(AdjGet(adjacency, Head(queue)), Tail(queue), reachable)
       IN SubgraphLoop(step[1], step[2], adjacency)

\* the nodes of the list whose id is in reachable
RECURSIVE FilterNodes(_, _)
FilterNodes(nodes, reachable) ==
  IF nodes = <<>> THEN <<>>
  ELSE IF Head(nodes).id \in reachable
       THEN <<Head(nodes)>> \o FilterNodes(Tail(nodes), reachable)
       ELSE FilterNodes(Tail(nodes), reachable)

\* a filter that keeps the connections that enter a reachable node
RECURSIVE FilterConnectionsByTo(_, _)
FilterConnectionsByTo(connections, reachable) ==
  IF connections = <<>> THEN <<>>
  ELSE IF Head(connections).to \in reachable
       THEN <<Head(connections)>> \o FilterConnectionsByTo(Tail(connections), reachable)
       ELSE FilterConnectionsByTo(Tail(connections), reachable)

\* the connections of the list whose two endpoints are in reachable
RECURSIVE FilterConnections(_, _)
FilterConnections(connections, reachable) ==
  IF connections = <<>> THEN <<>>
  ELSE IF Head(connections).from \in reachable /\ Head(connections).to \in reachable
       THEN <<Head(connections)>> \o FilterConnections(Tail(connections), reachable)
       ELSE FilterConnections(Tail(connections), reachable)

\* _filter_subgraph: the workflow data with the nodes and connections of the
\* subgraph; every other key of the data is kept
FilterSubgraph(workflow_data, start_node_id) ==
  LET adjacency == SubgraphAdjacencyLoop(
                     [nid \in SeqToSet(NodeIdList(workflow_data.nodes)) |-> <<>>],
                     workflow_data.connections)
      reachable == SubgraphLoop(<<start_node_id>>, {start_node_id}, adjacency)
  IN [workflow_data EXCEPT !.nodes = FilterNodes(workflow_data.nodes, reachable),
                           !.connections = FilterConnections(workflow_data.connections,
                                                             reachable)]

(***************************************************************************)
(* State                                                                   *)
(***************************************************************************)
VARIABLES
  nodes,              \* graph handed to the graph algorithms
  connections,
  call,               \* the graph algorithm applied last, with its arguments
  execution_order,    \* and the order it returned
  event_bus,          \* an EventBus object on its own: _subscriptions, _running, history
  emit_call,          \* the frame of the emit call on that bus
  bus_log,            \* the calls made on that bus: counters, events accepted by emit
  event_queue,        \* an EventQueue object on its own: items, max_size, _dropped_count
  queue_call,         \* the last call on that queue and what it returned
  filter_call,        \* the last call of _node_accepts_event and what it returned
  running_workflows,  \* WorkflowExecutor._running_workflows: id -> state record
  event_buses,        \* _event_buses: id -> EventBus object
  event_queues,       \* _event_queues: id -> EventQueue object
  node_instances,     \* _node_instances: id -> list of (node id, NodeRuntime), insertion order
  source_nodes,       \* _source_nodes: id -> set of source node ids
  queue_processors,   \* _queue_processors: id -> queue processor task
  background_tasks,   \* _background_tasks: id -> registry (set object) of tasks
  bus,                \* the EventBus objects: _running, subscriptions of on_source_event
  queue,              \* the EventQueue objects: items, _processing, _dropped_count
  inst,               \* the loaded node instances and the NodeContext each was given
  bg,                 \* the tasks made by NodeContext.create_task
  character,          \* the character dicts of the workflow data: the keys written
  task,               \* the coroutines: the host call, _execute_workflow, _process_event_queue
  active,             \* the task that holds the event loop (has not suspended), or None
  starts,             \* number of start_workflow calls that created resources
  emitted_events,     \* number of events emitted by source nodes
  stopped,            \* ids for which stop_workflow has returned and no start was issued since
  stop_snapshot,      \* the registered tasks unfinished when the last stop_workflow was called
  stop_calls,         \* number of stop_workflow calls made by the host
  faults,             \* number of setup() and execute() calls that raised
  limits              \* what the host and the node code do in this behaviour

cvars == <<event_bus, emit_call, bus_log, event_queue, queue_call, filter_call>>

gvars == <<nodes, connections, call, execution_order, cvars>>

maps == <<running_workflows, event_buses, event_queues, node_instances, source_nodes,
          queue_processors, background_tasks>>

objs == <<bus, queue, inst, bg, character>>

ghosts == <<stopped, stop_snapshot, stop_calls, faults, limits>>

evars == <<maps, objs, task, active, starts, emitted_events, ghosts>>

vars == <<gvars, evars>>

(***************************************************************************)
(* Bounds and inputs of the executor model                                 *)
(***************************************************************************)
None == "None"

\* start_workflow calls in one behaviour
MaxStarts == 2

\* events emitted by source nodes in one behaviour
MaxEvents == 2

\* stop_workflow calls made by the host in one behaviour
MaxStops == 2

\* calls of setup() and execute() that raise in one behaviour
MaxFaults == 1

\* tasks made through NodeContext.create_task in one behaviour
MaxBgTasks == 1

\* start_workflow: EventQueue(max_size=100)
QueueMaxSize == 100

WorkflowIds == {"wf1", "wf2"}

Gens == 1..MaxStarts

BgIds == 1..MaxBgTasks

\* start -> text-transform: run by _run_linear
LinearChain ==
  [nodes |-> <<[id |-> "n1", type |-> "start"], [id |-> "n2", type |-> "text-transform"]>>,
   connections |-> <<[from |-> "n1", to |-> "n2"]>>]

\* a timer feeding two nodes, the second of which also feeds the first listed
EventTriangle ==
  [nodes |-> <<[id |-> "n1", type |-> "timer"], [id |-> "n2", type |-> "text-transform"],
               [id |-> "n3", type |-> "text-transform"]>>,
   connections |-> <<[from |-> "n1", to |-> "n3"], [from |-> "n1", to |-> "n2"],
                     [from |-> "n2", to |-> "n3"]>>]

\* a timer feeding one node
EventChain ==
  [nodes |-> <<[id |-> "n1", type |-> "timer"], [id |-> "n2", type |-> "text-transform"]>>,
   connections |-> <<[from |-> "n1", to |-> "n2"]>>]

\* timer -> text-transform -> text-transform
EventLine ==
  [nodes |-> <<[id |-> "n1", type |-> "timer"], [id |-> "n2", type |-> "text-transform"],
               [id |-> "n3", type |-> "text-transform"]>>,
   connections |-> <<[from |-> "n1", to |-> "n2"], [from |-> "n2", to |-> "n3"]>>]

\* the graphs the host submits
\* a graph without nodes
EmptyGraph == [nodes |-> <<>>, connections |-> <<>>]

\* connections of the graphs started with a start_node_id
MaxSubgraphConns == 2

\* start, text-transform, text-transform with any connections between them
SubgraphGraphs ==
  {[nodes |-> <<[id |-> "n1", type |-> "start"], [id |-> "n2", type |-> "text-transform"],
                [id |-> "n3", type |-> "text-transform"]>>,
    connections |-> cs] :
     cs \in SeqsUpTo({c \in [from : NodeIds, to : NodeIds] : c.from # c.to}, MaxSubgraphConns)}

Workflows ==
  {LinearChain, EventChain, EventTriangle, EventLine, EmptyGraph} \cup SubgraphGraphs
  \cup {FilterSubgraph(wd, s) : wd \in SubgraphGraphs, s \in NodeIds}

(***************************************************************************)
(* Dictionaries                                                            *)
(***************************************************************************)
Put(d, k, v) == [x \in DOMAIN d \cup {k} |-> IF x = k THEN v ELSE d[x]]

Drop(d, k) == [x \in DOMAIN d \ {k} |-> d[x]]

\* an absent object (None where the code holds a bus, a queue or a registry)
NoObj == 0

\* d.get(k)
Get(d, k) == IF k \in DOMAIN d THEN d[k] ELSE NoObj

\* an absent NodeRuntime
NoRuntime == <<0, "None">>

\* an insertion-ordered dict kept as a list of [key, value]: d[k] = v
ListPut(l, k, v) ==
  IF \E i \in 1..Len(l) : l[i].key = k
  THEN [i \in 1..Len(l) |-> IF l[i].key = k THEN [key |-> k, value |-> v] ELSE l[i]]
  ELSE Append(l, [key |-> k, value |-> v])

ListGet(l, k) ==
  IF \E i \in 1..Len(l) : l[i].key = k
  THEN l[CHOOSE i \in 1..Len(l) : l[i].key = k].value
  ELSE NoRuntime

(***************************************************************************)
(* Tasks                                                                   *)
(***************************************************************************)
Host == <<"host", 0>>

Exec(g) == <<"exec", g>>

Proc(g) == <<"proc", g>>

TaskIds == {Host} \cup {Exec(g) : g \in Gens} \cup {Proc(g) : g \in Gens}

NoTaskId == <<"none", 0>>

NoData == [nodes |-> <<>>, connections |-> <<>>]

NoEvent == [event |-> [id |-> 0, type |-> "none", bus |-> NoObj], source_node_id |-> None]

\* a coroutine frame: its position and its local variables
NoTask ==
  [pc |-> "none", w |-> None, data |-> NoData, op |-> None, i |-> 0, order |-> <<>>,
   node_outputs |-> {}, runtimes |-> <<>>, awaited |-> NoTaskId, tasks |-> {},
   queue |-> NoObj, runtime |-> NoRuntime, event |-> NoEvent, cancel |-> FALSE,
   executed |-> <<>>, status |-> {}, k |-> 0, updated |-> {}]

HostIdle == [NoTask EXCEPT !.pc = "idle"]

\* the frame of a coroutine that has returned
Ended(f, pc) == [NoTask EXCEPT !.pc = pc, !.w = f.w]

\* whether a call into node code returns (TRUE) or raises (FALSE)
Outcomes == IF faults < limits.faults THEN BOOLEAN ELSE {TRUE}

\* the instance slot of (generation, node id)
NoInst ==
  [type |-> None, setup |-> "none", torn |-> 0, teardown |-> "none", event_bus |-> NoObj,
   task_registry |-> NoObj, character |-> NoObj, w |-> None]

InstIds == Gens \X NodeIds

NoBg == [state |-> "none", registry |-> NoObj, w |-> None]

\* the tasks a registry (set object) holds: done tasks discard themselves
RegistryTasks(r) == {b \in BgIds : bg[b].registry = r /\ bg[b].state = "running"}

EInit ==
  /\ running_workflows = <<>>
  /\ event_buses = <<>>
  /\ event_queues = <<>>
  /\ node_instances = <<>>
  /\ source_nodes = <<>>
  /\ queue_processors = <<>>
  /\ background_tasks = <<>>
  /\ bus = [g \in Gens |-> [running |-> FALSE, subs |-> 0]]
  /\ queue = [g \in Gens |-> [items |-> <<>>, processing |-> FALSE, dropped |-> 0]]
  /\ inst = [x \in InstIds |-> NoInst]
  /\ bg = [b \in BgIds |-> NoBg]
  /\ character = [g \in Gens |-> {}]
  /\ task = [t \in TaskIds |-> IF t = Host THEN HostIdle ELSE NoTask]
  /\ active = NoTaskId
  /\ starts = 0
  /\ emitted_events = 0
  /\ stopped = {}
  /\ stop_snapshot = {}
  /\ stop_calls = 0
  /\ faults = 0

\* EventBus.__init__
DefaultMaxHistory == 100

NewEventBus(max_history) ==
  [subscriptions |-> <<>>, running |-> FALSE, event_history |-> <<>>,
   max_history |-> max_history]

\* no emit call was made
NoEmit ==
  [pc |-> "idle", event |-> [type |-> "none", payload |-> <<>>, id |-> 0],
   was_running |-> FALSE, used |-> 0, p |-> 0, subs |-> <<>>, live |-> FALSE, i |-> 0,
   notified |-> 0, invoked |-> <<>>, raised |-> {}, disturbed |-> FALSE, ret |-> 0]

NoBusLog ==
  [starts |-> 0, subscribed |-> 0, unsubscribed |-> 0, emits |-> 0,
   accepted |-> <<>>, start_result |-> "none", event_callback |-> FALSE,
   wired |-> FALSE, forwarded |-> <<>>, removal |-> [emits |-> 0, op |-> "none"],
   limits |-> [starts |-> 0, subscribed |-> 0, unsubscribed |-> 0, emits |-> 0]]

\* EventQueue.__init__
NewEventQueue(max_size) == [items |-> <<>>, max_size |-> max_size, dropped_count |-> 0]

NoQueueCall == [op |-> "none", ret |-> FALSE, item |-> 0, puts |-> 0, gets |-> 0, refused |-> 0]

NoFilterCall == [fn |-> "none", ret |-> FALSE, event |-> [type |-> "none", payload |-> <<>>]]

\* the objects of the component models, untouched
CIdle ==
  /\ event_bus = NewEventBus(DefaultMaxHistory)
  /\ emit_call = NoEmit
  /\ bus_log = NoBusLog
  /\ event_queue = NewEventQueue(QueueMaxSize)
  /\ queue_call = NoQueueCall
  /\ filter_call = NoFilterCall

GIdle ==
  /\ nodes = <<>>
  /\ connections = <<>>
  /\ call = [fn |-> "none"]
  /\ execution_order = <<>>
  /\ CIdle

(***************************************************************************)
(* The event loop: a task runs until it suspends.  A step that resumes a   *)
(* suspended task needs the loop to be free; a step that continues a task  *)
(* without suspension needs the loop to be held by that task.              *)
(***************************************************************************)
Resumes(t) == active = NoTaskId

Continues(t) == active = t

SetTask(t, r) == [task EXCEPT ![t] = r]

(***************************************************************************)
(* start_workflow and stop_workflow, called by the host                    *)
(***************************************************************************)
\* start_workflow, entry: restart when the id is already running
StartWorkflow(w, wd) ==
  /\ Resumes(Host)
  /\ task[Host].pc = "idle"
  /\ starts < Len(limits.script)
  /\ wd = limits.script[starts + 1]
  /\ w = limits.ids[starts + 1]
  /\ task' = SetTask(Host, [HostIdle EXCEPT
                !.pc = IF w \in DOMAIN running_workflows THEN "stop" ELSE "start_body",
                !.op = IF w \in DOMAIN running_workflows THEN "restart" ELSE "start",
                !.w = w, !.data = wd])
  /\ active' = Host
  /\ stopped' = stopped \ {w}
  /\ UNCHANGED <<gvars, maps, objs, starts, emitted_events, stop_snapshot, stop_calls,
                 faults, limits>>

\* stop_workflow called by the host
StopWorkflow(w) ==
  /\ Resumes(Host)
  /\ task[Host].pc = "idle"
  /\ stop_calls < limits.stops
  /\ InSeq(w, limits.ids)
  /\ stop_calls' = stop_calls + 1
  /\ task' = SetTask(Host, [HostIdle EXCEPT !.pc = "stop", !.op = "stop", !.w = w])
  /\ active' = Host
  /\ stop_snapshot' = {b \in BgIds : bg[b].state = "running" /\ bg[b].registry # NoObj
                                      /\ bg[b].w = w}
  /\ UNCHANGED <<gvars, maps, objs, starts, emitted_events, stopped, faults, limits>>

\* stop_workflow, lines 357-366: early return, or cancel the queue processor
\* and await it
StopEnter ==
  LET h == task[Host]
      w == h.w
  IN /\ Continues(Host)
     /\ h.pc = "stop"
     /\ IF w \notin DOMAIN running_workflows
        THEN /\ task' = SetTask(Host, HostIdle)
             /\ active' = NoTaskId
             /\ stopped' = stopped \cup {w}
        ELSE IF w \in DOMAIN queue_processors
        THEN LET p == queue_processors[w]
             IN /\ task' = [task EXCEPT
                              ![Host] = [h EXCEPT !.pc = "stop_await", !.awaited = p],
                              ![p] = [@ EXCEPT !.cancel = (@ \/ task[p].pc # "done")]]
                /\ active' = IF task[p].pc = "done" THEN Host ELSE NoTaskId
                /\ UNCHANGED stopped
        ELSE /\ task' = SetTask(Host, [h EXCEPT !.pc = "teardown"])
             /\ active' = Host
             /\ UNCHANGED stopped
     /\ UNCHANGED <<gvars, maps, objs, starts, emitted_events, stop_snapshot, stop_calls,
                    faults, limits>>

\* stop_workflow, line 367: the awaited queue processor is done; del the entry
StopAwaited ==
  LET h == task[Host]
      w == h.w
  IN /\ h.pc = "stop_await"
     /\ Continues(Host) \/ Resumes(Host)
     /\ task[h.awaited].pc = "done"
     /\ IF w \in DOMAIN queue_processors
        THEN /\ queue_processors' = Drop(queue_processors, w)
             /\ task' = SetTask(Host, [h EXCEPT !.pc = "teardown", !.awaited = NoTaskId])
             /\ active' = Host
        ELSE \* KeyError propagates to the caller
             /\ task' = SetTask(Host, HostIdle)
             /\ active' = NoTaskId
             /\ UNCHANGED queue_processors
     /\ UNCHANGED <<gvars, running_workflows, event_buses, event_queues, node_instances,
                    source_nodes, background_tasks, objs, starts, emitted_events, ghosts>>

\* _teardown_nodes, line 216: runtimes = self._node_instances.pop(workflow_id, {})
TeardownNodes(t) ==
  LET f == task[t]
      popped == IF f.w \in DOMAIN node_instances THEN node_instances[f.w] ELSE <<>>
  IN /\ Continues(t)
     /\ f.pc = "teardown"
     /\ node_instances' = Drop(node_instances, f.w)
     /\ task' = SetTask(t, [f EXCEPT !.pc = "teardown_loop", !.k = 0,
                                     !.runtimes = [i \in 1..Len(popped) |-> popped[i].value]])
     /\ UNCHANGED <<gvars, running_workflows, event_buses, event_queues, source_nodes,
                    queue_processors, background_tasks, objs, active, starts,
                    emitted_events, ghosts>>

\* _teardown_nodes, lines 217-221: call teardown() of the next runtime's instance
TeardownLoop(t) ==
  LET f == task[t]
  IN /\ Continues(t)
     /\ f.pc = "teardown_loop"
     /\ IF f.k >= Len(f.runtimes)
        THEN /\ task' = SetTask(t, [f EXCEPT !.pc = IF t = Host THEN "stop_finish"
                                                     ELSE "cleanup_finish"])
             /\ UNCHANGED <<inst, active>>
        ELSE /\ inst' = [inst EXCEPT ![f.runtimes[f.k + 1]].torn = @ + 1]
             /\ task' = SetTask(t, [f EXCEPT !.pc = "teardown_wait"])
             /\ active' = NoTaskId
     /\ UNCHANGED <<gvars, maps, bus, queue, bg, starts, emitted_events, ghosts, character>>

\* a teardown() whose exception leaves _teardown_nodes with the nodes that
\* are left not torn down
TeardownReturnRaiseAborts(t) ==
  LET f == task[t]
      x == f.runtimes[f.k + 1]
  IN /\ Resumes(t)
     /\ f.pc = "teardown_wait"
     /\ \E ok \in Outcomes :
          /\ inst' = [inst EXCEPT ![x].teardown = IF ok THEN "returned" ELSE "raised"]
          /\ faults' = IF ok THEN faults ELSE faults + 1
          /\ task' = SetTask(t, [f EXCEPT !.pc = "teardown_loop",
                                          !.k = IF ok THEN f.k + 1 ELSE Len(f.runtimes)])
     /\ active' = t
     /\ UNCHANGED <<gvars, maps, bus, queue, bg, starts, emitted_events, stopped,
                    stop_snapshot, stop_calls, limits, character>>

\* _teardown_nodes, lines 219-223: teardown() returns, or raises and the
\* exception is logged; the loop goes on with the next runtime
TeardownReturn(t) ==
  LET f == task[t]
      x == f.runtimes[f.k + 1]
  IN /\ Resumes(t)
     /\ f.pc = "teardown_wait"
     /\ \E ok \in Outcomes :
          /\ inst' = [inst EXCEPT ![x].teardown = IF ok THEN "returned" ELSE "raised"]
          /\ faults' = IF ok THEN faults ELSE faults + 1
     /\ task' = SetTask(t, [f EXCEPT !.pc = "teardown_loop", !.k = f.k + 1])
     /\ active' = t
     /\ UNCHANGED <<gvars, maps, bus, queue, bg, starts, emitted_events, stopped,
                    stop_snapshot, stop_calls, limits, character>>

\* stop_workflow, lines 372-393: drop the source table, stop and drop the bus,
\* drop the queue and the registry, mark stopped and drop the running entry
StopFinish ==
  LET h == task[Host]
      w == h.w
  IN /\ Continues(Host)
     /\ h.pc = "stop_finish"
     /\ source_nodes' = Drop(source_nodes, w)
     /\ bus' = IF w \in DOMAIN event_buses
               THEN [bus EXCEPT ![event_buses[w]].running = FALSE] ELSE bus
     /\ event_buses' = Drop(event_buses, w)
     /\ event_queues' = Drop(event_queues, w)
     /\ background_tasks' = Drop(background_tasks, w)
     /\ IF w \notin DOMAIN running_workflows
        THEN \* KeyError propagates to the caller
             /\ task' = SetTask(Host, HostIdle)
             /\ active' = NoTaskId
             /\ UNCHANGED <<running_workflows, stopped>>
        ELSE /\ running_workflows' = Drop(running_workflows, w)
             /\ IF h.op = "restart"
                THEN /\ task' = SetTask(Host, [h EXCEPT !.pc = "start_body"])
                     /\ active' = Host
                     /\ UNCHANGED stopped
                ELSE /\ task' = SetTask(Host, HostIdle)
                     /\ active' = NoTaskId
                     /\ stopped' = stopped \cup {w}
     /\ UNCHANGED <<gvars, node_instances, queue_processors, queue, inst, bg, starts,
                    emitted_events, stop_snapshot, stop_calls, faults, limits, character>>

\* start_workflow, lines 315-353: fresh bus, registry and queue, the running
\* entry, and the task that runs _execute_workflow
StartBody ==
  LET h == task[Host]
      w == h.w
      g == starts + 1
      workflow_data == IF limits.start_node_id # None
                       THEN FilterSubgraph(h.data, limits.start_node_id)
                       ELSE h.data
  IN /\ Continues(Host)
     /\ h.pc = "start_body"
     /\ bus' = [bus EXCEPT ![g] = [running |-> TRUE, subs |-> 0]]
     /\ event_buses' = Put(event_buses, w, g)
     /\ background_tasks' = Put(background_tasks, w, g)
     /\ event_queues' = Put(event_queues, w, g)
     /\ running_workflows' = Put(running_workflows, w,
                                 [status |-> "running", workflow_data |-> workflow_data,
                                  error |-> None])
     /\ task' = [task EXCEPT ![Host] = HostIdle,
                             ![Exec(g)] = [NoTask EXCEPT !.pc = "spawned", !.w = w,
                                                         !.data = workflow_data]]
     /\ active' = NoTaskId
     /\ starts' = g
     /\ UNCHANGED <<gvars, node_instances, source_nodes, queue_processors, queue, inst, bg,
                    emitted_events, ghosts, character>>

(***************************************************************************)
(* _execute_workflow: the task spawned by start_workflow                   *)
(***************************************************************************)
\* _get_node_runtime: self._node_instances.get(workflow_id, {}).get(node_id)
GetNodeRuntime(w, node_id) ==
  IF w \in DOMAIN node_instances THEN ListGet(node_instances[w], node_id) ELSE NoRuntime

\* _get_node_inputs: the connections that deliver an input to node_id
GetNodeInputs(node_id, conns, node_outputs) ==
  {i \in 1..Len(conns) : conns[i].to = node_id /\ conns[i].from \in node_outputs}

SourceNodeList(ns) ==
  FilterIn(NodeIdList(ns),
           {ns[i].id : i \in {j \in 1..Len(ns) : ns[j].type \in SOURCE_NODE_TYPES}})

\* _execute_workflow, lines 398-406 and _initialize_nodes, line 180
ExecStart(g) ==
  LET t == Exec(g)
      f == task[t]
  IN /\ Resumes(t)
     /\ f.pc = "spawned"
     /\ IF f.data.nodes = <<>>
        THEN /\ task' = SetTask(t, Ended(f, "done"))
             /\ UNCHANGED <<node_instances, active>>
        ELSE /\ node_instances' = Put(node_instances, f.w, <<>>)
             /\ task' = SetTask(t, [f EXCEPT !.pc = "init_node", !.i = 1])
             /\ active' = t
     /\ UNCHANGED <<gvars, running_workflows, event_buses, event_queues, source_nodes,
                    queue_processors, background_tasks, objs, starts, emitted_events,
                    ghosts>>

\* _initialize_nodes, lines 182-200: context, instance, runtime entry, setup call
InitNode(g) ==
  LET t == Exec(g)
      f == task[t]
  IN /\ Continues(t)
     /\ f.pc = "init_node"
     /\ IF f.i > Len(f.data.nodes)
        THEN /\ task' = SetTask(t, [f EXCEPT !.pc = "choose_mode"])
             /\ UNCHANGED <<node_instances, inst, active>>
        ELSE LET node_id == f.data.nodes[f.i].id
             IN IF f.w \notin DOMAIN node_instances
                THEN \* KeyError at self._node_instances[workflow_id][node_id] = ...
                     /\ task' = SetTask(t, [f EXCEPT !.pc = "except"])
                     /\ UNCHANGED <<node_instances, inst, active>>
                ELSE /\ node_instances' =
                          [node_instances EXCEPT ![f.w] = ListPut(@, node_id, <<g, node_id>>)]
                     /\ inst' = [inst EXCEPT ![<<g, node_id>>] =
                                   [type |-> f.data.nodes[f.i].type,
                                    setup |-> "begun", torn |-> 0, teardown |-> "none",
                                    event_bus |-> Get(event_buses, f.w),
                                    task_registry |-> Get(background_tasks, f.w),
                                    character |-> g, w |-> f.w]]
                     /\ task' = SetTask(t, [f EXCEPT !.pc = "setup_wait"])
                     /\ active' = NoTaskId
     /\ UNCHANGED <<gvars, running_workflows, event_buses, event_queues, source_nodes,
                    queue_processors, background_tasks, bus, queue, bg, starts,
                    emitted_events, ghosts, character>>

\* _initialize_nodes, lines 200-202: setup returned, or raised and was logged
SetupReturn(g) ==
  LET t == Exec(g)
      f == task[t]
  IN /\ Resumes(t)
     /\ f.pc = "setup_wait"
     /\ \E ok \in Outcomes :
          /\ inst' = [inst EXCEPT ![<<g, f.data.nodes[f.i].id>>].setup =
                        IF ok THEN "returned" ELSE "raised"]
          /\ faults' = IF ok THEN faults ELSE faults + 1
     /\ task' = SetTask(t, [f EXCEPT !.pc = "init_node", !.i = f.i + 1])
     /\ active' = t
     /\ UNCHANGED <<gvars, maps, bus, queue, bg, starts, emitted_events, stopped,
                    stop_snapshot, stop_calls, limits, character>>

\* _initialize_nodes, lines 201-202: setup raised and the log callback of the
\* host raises inside _log, called from the except clause; the exception
\* leaves _initialize_nodes and reaches the handler of _execute_workflow
SetupErrorLogRaises(g) ==
  LET t == Exec(g)
      f == task[t]
  IN /\ Resumes(t)
     /\ f.pc = "setup_wait"
     /\ faults < limits.faults
     /\ limits.callbacks
     /\ inst' = [inst EXCEPT ![<<g, f.data.nodes[f.i].id>>].setup = "raised"]
     /\ faults' = faults + 1
     /\ limits' = [limits EXCEPT !.callbacks = FALSE]
     /\ task' = SetTask(t, [f EXCEPT !.pc = "except"])
     /\ active' = t
     /\ UNCHANGED <<gvars, maps, bus, queue, bg, starts, emitted_events, stopped,
                    stop_snapshot, stop_calls, character>>

\* _execute_workflow, lines 409-431 and _run_event_driven, line 454
RunEventDriven(g) ==
  LET t == Exec(g)
      f == task[t]
  IN /\ Continues(t)
     /\ f.pc = "choose_mode"
     /\ SourceNodeList(f.data.nodes) # <<>>
     /\ source_nodes' = Put(source_nodes, f.w, {})
     /\ task' = SetTask(t, [f EXCEPT !.pc = "source_loop", !.i = 1,
                                     !.order = SourceNodeList(f.data.nodes)])
     /\ UNCHANGED <<gvars, running_workflows, event_buses, event_queues, node_instances,
                    queue_processors, background_tasks, objs, active, starts,
                    emitted_events, ghosts>>

\* _run_event_driven, lines 457-498: register the next source node, or, after
\* the last one, subscribe on_source_event and spawn the queue processor
SourceLoop(g) ==
  LET t == Exec(g)
      f == task[t]
      b == Get(event_buses, f.w)
  IN /\ Continues(t)
     /\ f.pc = "source_loop"
     /\ IF f.i > Len(f.order)
        THEN /\ bus' = IF b # NoObj THEN [bus EXCEPT ![b].subs = @ + 1] ELSE bus
             /\ queue_processors' = Put(queue_processors, f.w, Proc(g))
             /\ task' = [task EXCEPT ![t] = Ended(f, "done"),
                                     ![Proc(g)] = [NoTask EXCEPT !.pc = "spawned", !.w = f.w,
                                                                 !.data = f.data]]
             /\ active' = NoTaskId
             /\ UNCHANGED source_nodes
        ELSE IF GetNodeRuntime(f.w, f.order[f.i]) = NoRuntime
        THEN /\ task' = SetTask(t, [f EXCEPT !.i = f.i + 1,
                                             !.status = @ \cup {<<f.order[f.i], "error">>}])
             /\ UNCHANGED <<bus, queue_processors, source_nodes, active>>
        ELSE IF f.w \notin DOMAIN source_nodes
        THEN \* KeyError at self._source_nodes[workflow_id][node_id] = ...
             /\ task' = SetTask(t, [f EXCEPT !.pc = "except"])
             /\ UNCHANGED <<bus, queue_processors, source_nodes, active>>
        ELSE /\ source_nodes' = [source_nodes EXCEPT ![f.w] = @ \cup {f.order[f.i]}]
             /\ task' = SetTask(t, [f EXCEPT !.pc = "source_wait",
                                             !.status = @ \cup {<<f.order[f.i], "listening">>}])
             /\ active' = NoTaskId
             /\ UNCHANGED <<bus, queue_processors>>
     /\ UNCHANGED <<gvars, running_workflows, event_buses, event_queues, node_instances,
                    background_tasks, queue, inst, bg, starts, emitted_events, ghosts, character>>

\* _run_event_driven, lines 472-473: the status and log callbacks returned
SourceAnnounced(g) ==
  LET t == Exec(g)
      f == task[t]
  IN /\ Resumes(t)
     /\ f.pc = "source_wait"
     /\ task' = SetTask(t, [f EXCEPT !.pc = "source_loop", !.i = f.i + 1])
     /\ active' = t
     /\ UNCHANGED <<gvars, maps, objs, starts, emitted_events, ghosts>>

\* _get_execution_order for the graphs the host submits, for every iteration
\* order of the set of entry points
LinearOrders ==
  [wd \in Workflows |->
     [set_order \in Perms(NodeIds) |->
        GetExecutionOrder(wd.nodes, wd.connections, set_order)]]

\* a supervisor that runs every graph through the linear runner
RunLinearAlways(g) ==
  LET t == Exec(g)
      f == task[t]
  IN /\ Continues(t)
     /\ f.pc = "choose_mode"
     /\ \E set_order \in Perms(NodeIds) :
          LET order == LinearOrders[f.data][set_order]
          IN IF order = <<>>
             THEN /\ task' = SetTask(t, Ended(f, "done"))
                  /\ active' = NoTaskId
             ELSE /\ task' = SetTask(t, [f EXCEPT !.pc = "linear_loop", !.i = 1,
                                                  !.order = order, !.node_outputs = {}])
                  /\ UNCHANGED active
     /\ UNCHANGED <<gvars, maps, objs, starts, emitted_events, ghosts>>

\* _execute_workflow, lines 432-434 and _run_linear, lines 610-617
RunLinear(g) ==
  LET t == Exec(g)
      f == task[t]
  IN /\ Continues(t)
     /\ f.pc = "choose_mode"
     /\ SourceNodeList(f.data.nodes) = <<>>
     /\ \E set_order \in Perms(NodeIds) :
          LET order == LinearOrders[f.data][set_order]
          IN IF order = <<>>
             THEN /\ task' = SetTask(t, Ended(f, "done"))
                  /\ active' = NoTaskId
             ELSE /\ task' = SetTask(t, [f EXCEPT !.pc = "linear_loop", !.i = 1,
                                                  !.order = order, !.node_outputs = {}])
                  /\ UNCHANGED active
     /\ UNCHANGED <<gvars, maps, objs, starts, emitted_events, ghosts>>

\* _run_linear, lines 619-635: next node of the order, up to the status callback
LinearLoop(g) ==
  LET t == Exec(g)
      f == task[t]
  IN /\ Continues(t)
     /\ f.pc = "linear_loop"
     /\ IF f.i > Len(f.order) \/ f.w \notin DOMAIN running_workflows
        THEN /\ task' = SetTask(t, [f EXCEPT !.pc = "linear_end"])
             /\ UNCHANGED active
        ELSE IF GetNodeRuntime(f.w, f.order[f.i]) = NoRuntime
        THEN /\ task' = SetTask(t, [f EXCEPT !.i = f.i + 1])
             /\ UNCHANGED active
        ELSE /\ task' = SetTask(t, [f EXCEPT !.pc = "announce",
                                             !.runtime = GetNodeRuntime(f.w, f.order[f.i]),
                                             !.status = @ \cup {<<f.order[f.i], "running">>}])
             /\ active' = NoTaskId
     /\ UNCHANGED <<gvars, maps, objs, starts, emitted_events, ghosts>>

\* lines 578 and 638: the status callback returned; execute() of the node is
\* called and suspends
ExecuteNode(t) ==
  LET f == task[t]
  IN /\ Resumes(t)
     /\ f.pc = "announce"
     /\ ~f.cancel
     /\ task' = SetTask(t, [f EXCEPT !.pc = "execute_wait",
                                     !.executed = Append(@, f.order[f.i])])
     /\ UNCHANGED <<gvars, maps, objs, active, starts, emitted_events, ghosts>>

\* NodeContext.update_character, lines 66-69, called by the node from inside
\* execute(): self.character.update(updates), the node writing its own key
UpdateCharacter(t) ==
  LET f == task[t]
      x == f.runtime
      c == inst[x].character
  IN /\ Resumes(t)
     /\ f.pc = "execute_wait"
     /\ ~f.cancel
     /\ limits.updates > 0
     /\ x[2] \notin f.updated
     /\ limits' = [limits EXCEPT !.updates = @ - 1]
     /\ character' = [character EXCEPT ![c] = @ \cup {x[2]}]
     /\ task' = SetTask(t, [f EXCEPT !.updated = @ \cup {x[2]}])
     /\ UNCHANGED <<gvars, maps, bus, queue, inst, bg, active, starts, emitted_events,
                    stopped, stop_snapshot, stop_calls, faults>>

\* _update_node_status(workflow_id, node_id, "running"), line 636: the status
\* callback of the host raises; _update_node_status lets it through, the call
\* is outside the try of the node, and the exception reaches the handler of
\* _execute_workflow
LinearStatusCallbackRaises(g) ==
  LET t == Exec(g)
      f == task[t]
  IN /\ Resumes(t)
     /\ f.pc = "announce"
     /\ ~f.cancel
     /\ limits.callbacks
     /\ limits' = [limits EXCEPT !.callbacks = FALSE]
     /\ task' = SetTask(t, [f EXCEPT !.pc = "except"])
     /\ active' = t
     /\ UNCHANGED <<gvars, maps, objs, starts, emitted_events, stopped, stop_snapshot,
                    stop_calls, faults>>

\* a linear run that announces the error and goes on with the next node
LinearExecuteReturnContinues(g) ==
  LET t == Exec(g)
      f == task[t]
      node_id == f.order[f.i]
  IN /\ Resumes(t)
     /\ f.pc = "execute_wait"
     /\ \E ok \in Outcomes :
          /\ task' = SetTask(t,
               [f EXCEPT !.pc = "linear_loop", !.i = f.i + 1,
                         !.node_outputs = IF ok THEN @ \cup {node_id} ELSE @,
                         !.status = @ \cup {<<node_id, IF ok THEN "completed" ELSE "error">>}])
          /\ faults' = IF ok THEN faults ELSE faults + 1
     /\ active' = t
     /\ UNCHANGED <<gvars, maps, objs, starts, emitted_events, stopped, stop_snapshot,
                    stop_calls, limits>>

\* _run_linear, lines 638-651: execute() returned or raised
LinearExecuteReturn(g) ==
  LET t == Exec(g)
      f == task[t]
      node_id == f.order[f.i]
  IN /\ Resumes(t)
     /\ f.pc = "execute_wait"
     /\ \E ok \in Outcomes :
          /\ task' = SetTask(t,
               IF ok
               THEN [f EXCEPT !.pc = "linear_loop", !.i = f.i + 1,
                              !.node_outputs = @ \cup {node_id},
                              !.status = @ \cup {<<node_id, "completed">>}]
               ELSE [f EXCEPT !.pc = "except", !.status = @ \cup {<<node_id, "error">>}])
          /\ faults' = IF ok THEN faults ELSE faults + 1
     /\ active' = t
     /\ UNCHANGED <<gvars, maps, objs, starts, emitted_events, stopped, stop_snapshot,
                    stop_calls, limits>>

\* _run_linear, lines 653-659 and _await_background_tasks: mark completed, then
\* wait for the registered tasks to finish
LinearEnd(g) ==
  LET t == Exec(g)
      f == task[t]
      tasks == RegistryTasks(Get(background_tasks, f.w))
  IN /\ Continues(t)
     /\ f.pc = "linear_end"
     /\ running_workflows' =
          IF f.w \in DOMAIN running_workflows
          THEN [running_workflows EXCEPT ![f.w].status = "completed"]
          ELSE running_workflows
     /\ task' = SetTask(t, [f EXCEPT
                  !.pc = IF tasks = {} THEN "cleanup_processor" ELSE "cleanup_await_tasks",
                  !.tasks = tasks,
                  !.status = IF f.w \in DOMAIN running_workflows
                             THEN @ \cup {<<None, "completed">>} ELSE @])
     /\ active' = IF tasks = {} THEN t ELSE NoTaskId
     /\ UNCHANGED <<gvars, event_buses, event_queues, node_instances, source_nodes,
                    queue_processors, background_tasks, objs, starts, emitted_events,
                    ghosts>>

\* _await_background_tasks, line 274: gather returned
AwaitBackgroundTasksDone(g) ==
  LET t == Exec(g)
      f == task[t]
  IN /\ Resumes(t)
     /\ f.pc = "cleanup_await_tasks"
     /\ \A b \in f.tasks : bg[b].state # "running"
     /\ task' = SetTask(t, [f EXCEPT !.pc = "cleanup_processor", !.tasks = {}])
     /\ active' = t
     /\ UNCHANGED <<gvars, maps, objs, starts, emitted_events, ghosts>>

\* _cleanup_completed_workflow, lines 245-250: cancel the queue processor, await
CleanupProcessor(g) ==
  LET t == Exec(g)
      f == task[t]
  IN /\ Continues(t)
     /\ f.pc = "cleanup_processor"
     /\ IF f.w \in DOMAIN queue_processors
        THEN LET p == queue_processors[f.w]
             IN /\ task' = [task EXCEPT
                              ![t] = [f EXCEPT !.pc = "cleanup_await", !.awaited = p],
                              ![p] = [@ EXCEPT !.cancel = (@ \/ task[p].pc # "done")]]
                /\ active' = IF task[p].pc = "done" THEN t ELSE NoTaskId
        ELSE /\ task' = SetTask(t, [f EXCEPT !.pc = "cleanup_cancel_tasks"])
             /\ UNCHANGED active
     /\ UNCHANGED <<gvars, maps, objs, starts, emitted_events, ghosts>>

\* _cleanup_completed_workflow, line 251: del the queue processor entry
CleanupAwaited(g) ==
  LET t == Exec(g)
      f == task[t]
  IN /\ f.pc = "cleanup_await"
     /\ Continues(t) \/ Resumes(t)
     /\ task[f.awaited].pc = "done"
     /\ IF f.w \in DOMAIN queue_processors
        THEN /\ queue_processors' = Drop(queue_processors, f.w)
             /\ task' = SetTask(t, [f EXCEPT !.pc = "cleanup_cancel_tasks", !.awaited = NoTaskId])
        ELSE \* KeyError, caught by _execute_workflow
             /\ task' = SetTask(t, [f EXCEPT !.pc = "except", !.awaited = NoTaskId])
             /\ UNCHANGED queue_processors
     /\ active' = t
     /\ UNCHANGED <<gvars, running_workflows, event_buses, event_queues, node_instances,
                    source_nodes, background_tasks, objs, starts, emitted_events, ghosts>>

\* _cancel_background_tasks, lines 278-282: cancel the registered tasks, gather
CancelBackgroundTasks(g) ==
  LET t == Exec(g)
      f == task[t]
      tasks == RegistryTasks(Get(background_tasks, f.w))
  IN /\ Continues(t)
     /\ f.pc = "cleanup_cancel_tasks"
     /\ bg' = [b \in BgIds |-> IF b \in tasks THEN [bg[b] EXCEPT !.state = "cancelled"]
                               ELSE bg[b]]
     /\ task' = SetTask(t, [f EXCEPT !.pc = "cleanup_pop_tasks"])
     /\ active' = IF tasks = {} THEN t ELSE NoTaskId
     /\ UNCHANGED <<gvars, maps, bus, queue, inst, starts, emitted_events, ghosts, character>>

\* _cancel_background_tasks, line 283: pop the registry
PopBackgroundTasks(g) ==
  LET t == Exec(g)
      f == task[t]
  IN /\ f.pc = "cleanup_pop_tasks"
     /\ Continues(t) \/ Resumes(t)
     /\ background_tasks' = Drop(background_tasks, f.w)
     /\ task' = SetTask(t, [f EXCEPT !.pc = "teardown"])
     /\ active' = t
     /\ UNCHANGED <<gvars, running_workflows, event_buses, event_queues, node_instances,
                    source_nodes, queue_processors, objs, starts, emitted_events, ghosts>>

\* _cleanup_completed_workflow, lines 257-268: drop the source table, stop and
\* drop the bus, drop the queue and the registry
CleanupFinish(g) ==
  LET t == Exec(g)
      f == task[t]
      w == f.w
  IN /\ Continues(t)
     /\ f.pc = "cleanup_finish"
     /\ source_nodes' = Drop(source_nodes, w)
     /\ bus' = IF w \in DOMAIN event_buses
               THEN [bus EXCEPT ![event_buses[w]].running = FALSE] ELSE bus
     /\ event_buses' = Drop(event_buses, w)
     /\ event_queues' = Drop(event_queues, w)
     /\ background_tasks' = Drop(background_tasks, w)
     /\ task' = SetTask(t, Ended(f, "done"))
     /\ active' = NoTaskId
     /\ UNCHANGED <<gvars, running_workflows, node_instances, queue_processors, queue, inst,
                    bg, starts, emitted_events, ghosts, character>>

\* _execute_workflow, lines 436-442: an exception ends the run
ExecExcept(g) ==
  LET t == Exec(g)
      f == task[t]
  IN /\ Continues(t)
     /\ f.pc = "except"
     /\ running_workflows' =
          IF f.w \in DOMAIN running_workflows
          THEN [running_workflows EXCEPT ![f.w].status = "error", ![f.w].error = "str(e)"]
          ELSE running_workflows
     /\ task' = SetTask(t, Ended(f, "aborted"))
     /\ active' = NoTaskId
     /\ UNCHANGED <<gvars, event_buses, event_queues, node_instances, source_nodes,
                    queue_processors, background_tasks, objs, starts, emitted_events,
                    ghosts>>

(***************************************************************************)
(* _process_event_queue: the queue processor task                          *)
(***************************************************************************)
\* the characters of the event type names and patterns of the model
Letters(name) ==
  CASE name = "*" -> <<"*">>
    [] name = "a" -> <<"a">>
    [] name = "a.b" -> <<"a", ".", "b">>
    [] name = "axb" -> <<"a", "x", "b">>
    [] name = "a.*" -> <<"a", ".", "*">>
    [] name = "*b" -> <<"*", "b">>
    [] name = "timer.tick" -> <<"t", "i", "m", "e", "r", ".", "t", "i", "c", "k">>
    [] name = "timer.*" -> <<"t", "i", "m", "e", "r", ".", "*">>
    [] name = "donation" -> <<"d", "o", "n", "a", "t", "i", "o", "n">>
    [] name = "audio.*" ->
         <<"a", "u", "d", "i", "o", ".", "*">>
    [] name = "avatar.*" ->
         <<"a", "v", "a", "t", "a", "r", ".", "*">>
    [] name = "subtitle" ->
         <<"s", "u", "b", "t", "i", "t", "l", "e">>
    [] name = "audio." ->
         <<"a", "u", "d", "i", "o", ".">>
    [] name = "avatar." ->
         <<"a", "v", "a", "t", "a", "r", ".">>
    [] name = "audio" ->
         <<"a", "u", "d", "i", "o">>
    [] name = "audio.play" ->
         <<"a", "u", "d", "i", "o", ".", "p", "l", "a", "y">>
    [] name = "avatar.move" ->
         <<"a", "v", "a", "t", "a", "r", ".", "m", "o", "v", "e">>
    [] name = "subtitles" ->
         <<"s", "u", "b", "t", "i", "t", "l", "e", "s">>
    [] name = "my.audio.play" ->
         <<"m", "y", ".", "a", "u", "d", "i", "o", ".", "p", "l", "a", "y">>
    [] OTHER -> <<name>>

\* pattern.replace('.', r'\.').replace('*', '.*'): the regular expression as a
\* list of tokens, a literal character or the token for '.*'
WildcardRegex(letters) ==
  [i \in 1..Len(letters) |->
     IF letters[i] = "*" THEN [kind |-> "any_string"]
     ELSE [kind |-> "literal", ch |-> letters[i]]]

\* re.match('^regex$', text) for such an expression
RECURSIVE ReMatch(_, _)
ReMatch(regex, text) ==
  IF regex = <<>> THEN text = <<>>
  ELSE IF Head(regex).kind = "any_string"
       THEN \/ ReMatch(Tail(regex), text)
            \/ text # <<>> /\ ReMatch(regex, Tail(text))
       ELSE /\ text # <<>>
            /\ Head(text) = Head(regex).ch
            /\ ReMatch(Tail(regex), Tail(text))

\* EventFilter._match_pattern: a pattern with '*' is matched as a regular
\* expression, every other pattern by equality
MatchPattern(pattern, event_type) ==
  IF InSeq("*", Letters(pattern))
  THEN ReMatch(WildcardRegex(Letters(pattern)), Letters(event_type))
  ELSE pattern = event_type

\* the conditions of the model, as the text of  event.<field> <op> <value>
NoCondition == [field |-> None, op |-> None, value |-> 0]

\* key is a proper prefix of field, so that the text 'event.' + key occurs in
\* the text 'event.' + field
ProperPrefix(key, field) == key = "a" /\ field = "amount"

\* lines 72-78 of _evaluate_condition: the text of the condition after
\* 'event.<key>' was replaced by the value for every key of the payload, in
\* the order of the payload; the replacement of a key that is a proper prefix
\* of the field leaves text that is no expression
RECURSIVE ReplaceFields(_, _, _)
ReplaceFields(condition, payload, i) ==
  IF i > Len(payload) THEN condition
  ELSE IF condition.state # "text" THEN ReplaceFields(condition, payload, i + 1)
  ELSE IF payload[i].key = condition.field
       THEN ReplaceFields([condition EXCEPT !.state = "value", !.left = payload[i].value],
                          payload, i + 1)
       ELSE IF ProperPrefix(payload[i].key, condition.field)
            THEN ReplaceFields([condition EXCEPT !.state = "broken"], payload, i + 1)
            ELSE ReplaceFields(condition, payload, i + 1)

\* EventFilter._evaluate_condition: eval of the text; a name that was not
\* replaced (NameError) and a broken text (SyntaxError) give False
EvaluateCondition(condition, event) ==
  LET c == ReplaceFields([field |-> condition.field, op |-> condition.op,
                          value |-> condition.value, state |-> "text", left |-> 0],
                         event.payload, 1)
  IN IF c.state # "value" THEN FALSE
     ELSE CASE c.op = ">" -> c.left > c.value
            [] c.op = "===" -> c.left = c.value
            [] c.op = "!==" -> c.left # c.value
            [] OTHER -> FALSE

\* EventFilter.matches: the pattern, then the condition when there is one
FilterMatches(filter, event) ==
  IF ~MatchPattern(filter.event, event.type) THEN FALSE
  ELSE IF filter.condition # NoCondition THEN EvaluateCondition(filter.condition, event)
  ELSE TRUE

\* the list node.get("eventFilters") or node.get("event_filters")
NodeFilters(node) ==
  IF "eventFilters" \in DOMAIN node /\ node.eventFilters # <<>> THEN node.eventFilters
  ELSE IF "event_filters" \in DOMAIN node THEN node.event_filters
  ELSE <<>>

\* the list is scanned to the first filter that has an event name and matches
RECURSIVE AcceptLoop(_, _, _)
AcceptLoop(filters, event, i) ==
  IF i > Len(filters) THEN FALSE
  ELSE IF filters[i].event = None THEN AcceptLoop(filters, event, i + 1)
  ELSE IF FilterMatches(filters[i], event) THEN TRUE
  ELSE AcceptLoop(filters, event, i + 1)

\* a node that accepts an event when some filter matches the type, whatever
\* the condition of the filter
NodeAcceptsEventIgnoringCondition(node, event) ==
  \/ NodeFilters(node) = <<>>
  \/ \E i \in 1..Len(NodeFilters(node)) :
       /\ NodeFilters(node)[i].event # None
       /\ MatchPattern(NodeFilters(node)[i].event, event.type)

\* _node_accepts_event: no filters accepts; otherwise one filter must match
NodeAcceptsEvent(node, event) ==
  IF NodeFilters(node) = <<>> THEN TRUE
  ELSE AcceptLoop(NodeFilters(node), event, 1)

\* inbound_counts.get(node_id, 0)
InboundCount(node_id, conns) == Cardinality({i \in 1..Len(conns) : conns[i].to = node_id})

\* the task starts, or was cancelled before it ran; line 509
ProcStart(g) ==
  LET t == Proc(g)
      f == task[t]
  IN /\ Resumes(t)
     /\ f.pc = "spawned"
     /\ IF f.cancel
        THEN /\ task' = SetTask(t, Ended(f, "done"))
             /\ UNCHANGED active
        ELSE /\ task' = SetTask(t, [f EXCEPT !.pc = "loop", !.queue = Get(event_queues, f.w)])
             /\ active' = t
     /\ UNCHANGED <<gvars, maps, objs, starts, emitted_events, ghosts>>

\* lines 511-514: leave when the workflow is not running, else wait on the queue
ProcLoop(g) ==
  LET t == Proc(g)
      f == task[t]
  IN /\ Continues(t)
     /\ f.pc = "loop"
     /\ IF f.w \notin DOMAIN running_workflows
        THEN /\ task' = SetTask(t, Ended(f, "done"))
             /\ active' = NoTaskId
        ELSE IF f.queue = NoObj
        THEN \* queue.get raises AttributeError; lines 594-599 log it and loop
             UNCHANGED <<task, active>>
        ELSE /\ task' = SetTask(t, [f EXCEPT !.pc = "wait"])
             /\ active' = NoTaskId
     /\ UNCHANGED <<gvars, maps, objs, starts, emitted_events, ghosts>>

\* lines 514-548: an event is taken from the queue
ProcGet(g) ==
  LET t == Proc(g)
      f == task[t]
      event_data == Head(queue[f.queue].items)
      adjacency == BuildAdjacency(f.data.nodes, f.data.connections)
      downstream_ids == GetDownstreamNodes(event_data.source_node_id, adjacency)
  IN /\ Resumes(t)
     /\ f.pc = "wait"
     /\ ~f.cancel
     /\ queue[f.queue].items # <<>>
     /\ queue' = [queue EXCEPT ![f.queue].items = Tail(@),
                               ![f.queue].processing = (downstream_ids # <<>>)]
     /\ task' = SetTask(t,
          IF downstream_ids = <<>>
          THEN [f EXCEPT !.pc = "loop"]
          ELSE [f EXCEPT !.pc = "node", !.i = 1, !.event = event_data,
                         !.node_outputs = {event_data.source_node_id},
                         !.order = GetExecutionOrderFrom(event_data.source_node_id,
                                       f.data.nodes, f.data.connections, adjacency),
                         !.executed = <<>>, !.status = {}])
     /\ active' = t
     /\ UNCHANGED <<gvars, maps, bus, inst, bg, starts, emitted_events, ghosts, character>>

\* lines 589-591: asyncio.TimeoutError, no event within the second
ProcTimeout(g) ==
  LET t == Proc(g)
      f == task[t]
  IN /\ Resumes(t)
     /\ f.pc = "wait"
     /\ ~f.cancel
     /\ queue[f.queue].items = <<>>
     /\ task' = SetTask(t, [f EXCEPT !.pc = "loop"])
     /\ active' = t
     /\ UNCHANGED <<gvars, maps, objs, starts, emitted_events, ghosts>>

\* a queue processor that swallows the cancellation and goes on with its loop
ProcCancelledSwallowed(g) ==
  LET t == Proc(g)
      f == task[t]
  IN /\ Resumes(t)
     /\ f.pc \in {"wait", "announce", "execute_wait"}
     /\ f.cancel
     /\ task' = SetTask(t, [f EXCEPT !.pc = "loop", !.cancel = FALSE])
     /\ UNCHANGED <<gvars, maps, objs, active, starts, emitted_events, ghosts>>

\* lines 592-593: CancelledError is raised at the await the task is suspended in
ProcCancelled(g) ==
  LET t == Proc(g)
      f == task[t]
  IN /\ Resumes(t)
     /\ f.pc \in {"wait", "announce", "execute_wait"}
     /\ f.cancel
     /\ task' = SetTask(t, Ended(f, "done"))
     /\ UNCHANGED <<gvars, maps, objs, active, starts, emitted_events, ghosts>>

\* a queue processor that executes a node whether it has inputs or not
ProcNodeWithoutInputs(g) ==
  LET t == Proc(g)
      f == task[t]
      conns == f.data.connections
      node_id == f.order[f.i]
      node == NodeOf(f.data.nodes, node_id)
      skip == \/ node.type \in SOURCE_NODE_TYPES
              \/ ~NodeAcceptsEvent(node, f.event.event)
              \/ GetNodeRuntime(f.w, node_id) = NoRuntime
  IN /\ Continues(t)
     /\ f.pc = "node"
     /\ IF f.i > Len(f.order) \/ f.w \notin DOMAIN running_workflows
        THEN /\ queue' = [queue EXCEPT ![f.queue].processing = FALSE]
             /\ task' = SetTask(t, [NoTask EXCEPT !.pc = "loop", !.w = f.w, !.data = f.data,
                                                  !.queue = f.queue])
             /\ UNCHANGED active
        ELSE IF skip
        THEN /\ task' = SetTask(t, [f EXCEPT !.i = f.i + 1])
             /\ UNCHANGED <<queue, active>>
        ELSE /\ task' = SetTask(t, [f EXCEPT !.pc = "announce",
                                             !.runtime = GetNodeRuntime(f.w, node_id),
                                             !.status = @ \cup {<<node_id, "running">>}])
             /\ active' = NoTaskId
             /\ UNCHANGED queue
     /\ UNCHANGED <<gvars, maps, bus, inst, bg, starts, emitted_events, ghosts, character>>

\* lines 550-575 and 587: the next downstream node, up to the status callback
ProcNode(g) ==
  LET t == Proc(g)
      f == task[t]
      conns == f.data.connections
      node_id == f.order[f.i]
      node == NodeOf(f.data.nodes, node_id)
      skip == \/ node.type \in SOURCE_NODE_TYPES
              \/ ~NodeAcceptsEvent(node, f.event.event)
              \/ GetNodeInputs(node_id, conns, f.node_outputs) = {}
                   /\ InboundCount(node_id, conns) > 0
              \/ GetNodeRuntime(f.w, node_id) = NoRuntime
  IN /\ Continues(t)
     /\ f.pc = "node"
     /\ IF f.i > Len(f.order) \/ f.w \notin DOMAIN running_workflows
        THEN /\ queue' = [queue EXCEPT ![f.queue].processing = FALSE]
             /\ task' = SetTask(t, [NoTask EXCEPT !.pc = "loop", !.w = f.w, !.data = f.data,
                                                  !.queue = f.queue])
             /\ UNCHANGED active
        ELSE IF skip
        THEN /\ task' = SetTask(t, [f EXCEPT !.i = f.i + 1])
             /\ UNCHANGED <<queue, active>>
        ELSE /\ task' = SetTask(t, [f EXCEPT !.pc = "announce",
                                             !.runtime = GetNodeRuntime(f.w, node_id),
                                             !.status = @ \cup {<<node_id, "running">>}])
             /\ active' = NoTaskId
             /\ UNCHANGED queue
     /\ UNCHANGED <<gvars, maps, bus, inst, bg, starts, emitted_events, ghosts, character>>

\* _update_node_status(workflow_id, node_id, "running"), line 580: the status
\* callback of the host raises; the exception reaches the handler of lines
\* 594-599, which clears the processing flag, and the loop takes the next
\* event: the nodes left in the order are not executed for this one
ProcStatusCallbackRaises(g) ==
  LET t == Proc(g)
      f == task[t]
  IN /\ Resumes(t)
     /\ f.pc = "announce"
     /\ ~f.cancel
     /\ limits.callbacks
     /\ limits' = [limits EXCEPT !.callbacks = FALSE]
     /\ queue' = IF f.queue # NoObj THEN [queue EXCEPT ![f.queue].processing = FALSE]
                 ELSE queue
     /\ task' = SetTask(t, [NoTask EXCEPT !.pc = "loop", !.w = f.w, !.data = f.data,
                                          !.queue = f.queue])
     /\ active' = t
     /\ UNCHANGED <<gvars, maps, bus, inst, bg, starts, emitted_events, stopped,
                    stop_snapshot, stop_calls, faults, character>>

\* a queue processor that lets the error of a node end the task
ProcExecuteReturnRaises(g) ==
  LET t == Proc(g)
      f == task[t]
      node_id == f.order[f.i]
  IN /\ Resumes(t)
     /\ f.pc = "execute_wait"
     /\ ~f.cancel
     /\ \E ok \in Outcomes :
          /\ task' = SetTask(t,
               IF ok
               THEN [f EXCEPT !.pc = "node", !.i = f.i + 1,
                              !.node_outputs = @ \cup {node_id},
                              !.status = @ \cup {<<node_id, "completed">>}]
               ELSE Ended(f, "done"))
          /\ faults' = IF ok THEN faults ELSE faults + 1
          /\ active' = IF ok THEN t ELSE NoTaskId
     /\ UNCHANGED <<gvars, maps, objs, starts, emitted_events, stopped, stop_snapshot,
                    stop_calls, limits>>

\* lines 578-585: execute() returned, or raised and the error was announced
ProcExecuteReturn(g) ==
  LET t == Proc(g)
      f == task[t]
      node_id == f.order[f.i]
  IN /\ Resumes(t)
     /\ f.pc = "execute_wait"
     /\ ~f.cancel
     /\ \E ok \in Outcomes :
          /\ task' = SetTask(t,
               IF ok
               THEN [f EXCEPT !.pc = "node", !.i = f.i + 1,
                              !.node_outputs = @ \cup {node_id},
                              !.status = @ \cup {<<node_id, "completed">>}]
               ELSE [f EXCEPT !.pc = "node", !.i = f.i + 1,
                              !.status = @ \cup {<<node_id, "error">>}])
          /\ faults' = IF ok THEN faults ELSE faults + 1
     /\ active' = t
     /\ UNCHANGED <<gvars, maps, objs, starts, emitted_events, stopped, stop_snapshot,
                    stop_calls, limits>>

(***************************************************************************)
(* Node code: source events and background tasks                           *)
(***************************************************************************)
\* EventQueue.put called once per subscription of on_source_event
RECURSIVE PutTimes(_, _, _)
PutTimes(q, item, n) ==
  IF n = 0 THEN q
  ELSE PutTimes(IF Len(q.items) < QueueMaxSize
                THEN [q EXCEPT !.items = Append(@, item)]
                ELSE [q EXCEPT !.dropped = @ + 1],
                item, n - 1)

\* SourceEmit with one queue shared by every workflow
SourceEmitShared(g, node_id) ==
  LET x == inst[<<g, node_id>>]
      b == x.event_bus
      item == [event |-> [id |-> emitted_events + 1, type |-> "timer.tick", bus |-> b],
               source_node_id |-> node_id]
  IN /\ Resumes(Exec(g))
     /\ emitted_events < limits.events
     /\ x.setup # "none"
     /\ x.torn = 0
     /\ x.type \in SOURCE_NODE_TYPES
     /\ emitted_events' = emitted_events + 1
     /\ queue' = IF b # NoObj /\ bus[b].running
                 THEN [q \in Gens |->
                         IF \E w \in DOMAIN event_queues : event_queues[w] = q
                         THEN PutTimes(queue[q], item, bus[b].subs)
                         ELSE queue[q]]
                 ELSE queue
     /\ UNCHANGED <<gvars, maps, bus, inst, bg, task, active, starts, ghosts, character>>

\* a source node emits an event: NodeContext.emit_event, EventBus.emit and the
\* on_source_event callbacks of _run_event_driven (lines 478-487)
SourceEmit(g, node_id) ==
  LET x == inst[<<g, node_id>>]
      b == x.event_bus
      q == Get(event_queues, x.w)
      item == [event |-> [id |-> emitted_events + 1, type |-> "timer.tick", bus |-> b],
               source_node_id |-> node_id]
  IN /\ Resumes(Exec(g))
     /\ emitted_events < limits.events
     /\ x.setup # "none"
     /\ x.torn = 0
     /\ x.type \in SOURCE_NODE_TYPES
     /\ emitted_events' = emitted_events + 1
     /\ queue' = IF b # NoObj /\ bus[b].running /\ q # NoObj
                 THEN [queue EXCEPT ![q] = PutTimes(@, item, bus[b].subs)]
                 ELSE queue
     /\ UNCHANGED <<gvars, maps, bus, inst, bg, task, active, starts, ghosts, character>>

\* NodeContext.emit_event called by the node whose execute() is in progress,
\* with a "message.*" event: EventBus.emit awaits on_source_event for every
\* subscription of the runner, which puts the event in the queue of the id
NodeEmit(t) ==
  LET f == task[t]
      x == inst[f.runtime]
      b == x.event_bus
      q == Get(event_queues, x.w)
      item == [event |-> [id |-> emitted_events + 1, type |-> "message.reply", bus |-> b],
               source_node_id |-> f.runtime[2]]
  IN /\ Resumes(t)
     /\ f.pc = "execute_wait"
     /\ ~f.cancel
     /\ limits.node_events > 0
     /\ limits' = [limits EXCEPT !.node_events = @ - 1]
     /\ emitted_events' = emitted_events + 1
     /\ queue' = IF b # NoObj /\ bus[b].running /\ q # NoObj
                 THEN [queue EXCEPT ![q] = PutTimes(@, item, bus[b].subs)]
                 ELSE queue
     /\ UNCHANGED <<gvars, maps, bus, inst, bg, task, active, starts, stopped, stop_snapshot,
                    stop_calls, faults, character>>

\* NodeContext.create_task called by the node whose execute() is in progress
CreateTask(t) ==
  LET f == task[t]
      b == CHOOSE x \in BgIds : bg[x].state = "none" /\ \A y \in BgIds : bg[y].state = "none" => x <= y
  IN /\ Resumes(t)
     /\ f.pc = "execute_wait"
     /\ ~f.cancel
     /\ \E x \in BgIds : bg[x].state = "none"
     /\ Cardinality({x \in BgIds : bg[x].state # "none"}) < limits.tasks
     /\ bg' = [bg EXCEPT ![b] = [state |-> "running",
                                 registry |-> inst[f.runtime].task_registry,
                                 w |-> inst[f.runtime].w]]
     /\ UNCHANGED <<gvars, maps, bus, queue, inst, task, active, starts, emitted_events,
                    ghosts, character>>

\* a task made by create_task runs to its end
TaskFinishes(b) ==
  /\ active = NoTaskId
  /\ bg[b].state = "running"
  /\ bg' = [bg EXCEPT ![b].state = "done"]
  /\ UNCHANGED <<gvars, maps, bus, queue, inst, task, active, starts, emitted_events,
                 ghosts, character>>

(***************************************************************************)
(* Specifications                                                          *)
(***************************************************************************)
HostNext ==
  \/ \E w \in WorkflowIds, wd \in Workflows : StartWorkflow(w, wd)
  \/ \E w \in WorkflowIds : StopWorkflow(w)
  \/ StopEnter
  \/ StopAwaited
  \/ StopFinish
  \/ StartBody

TeardownNext ==
  \E t \in {Host} \cup {Exec(g) : g \in Gens} :
    \/ TeardownNodes(t)
    \/ TeardownLoop(t)
    \/ TeardownReturn(t)

ExecNext ==
  \E g \in Gens :
    \/ ExecStart(g)
    \/ InitNode(g)
    \/ SetupReturn(g)
    \/ SetupErrorLogRaises(g)
    \/ RunEventDriven(g)
    \/ SourceLoop(g)
    \/ SourceAnnounced(g)
    \/ RunLinear(g)
    \/ LinearStatusCallbackRaises(g)
    \/ LinearLoop(g)
    \/ LinearExecuteReturn(g)
    \/ LinearEnd(g)
    \/ AwaitBackgroundTasksDone(g)
    \/ CleanupProcessor(g)
    \/ CleanupAwaited(g)
    \/ CancelBackgroundTasks(g)
    \/ PopBackgroundTasks(g)
    \/ CleanupFinish(g)
    \/ ExecExcept(g)

ProcNext ==
  \E g \in Gens :
    \/ ProcStart(g)
    \/ ProcLoop(g)
    \/ ProcGet(g)
    \/ ProcTimeout(g)
    \/ ProcCancelled(g)
    \/ ProcNode(g)
    \/ ProcExecuteReturn(g)
    \/ ProcStatusCallbackRaises(g)

NodeNext ==
  \/ \E t \in TaskIds : ExecuteNode(t)
  \/ \E t \in TaskIds : UpdateCharacter(t)
  \/ \E t \in TaskIds : NodeEmit(t)
  \/ \E g \in Gens, node_id \in NodeIds : SourceEmit(g, node_id)
  \/ \E t \in TaskIds : CreateTask(t)
  \/ \E b \in BgIds : TaskFinishes(b)

Next == HostNext \/ TeardownNext \/ ExecNext \/ ProcNext \/ NodeNext

\* one start; the node code fails, emits events and creates tasks, and the
\* status callback of the host fails once
Scenario(wd) ==
  [script |-> <<wd>>, start_node_id |-> None, ids |-> <<"wf1">>, stops |-> MaxStops, events |-> MaxEvents, tasks |-> MaxBgTasks,
   faults |-> MaxFaults, callbacks |-> TRUE, node_events |-> 0, updates |-> 0]

\* start calls for an id that is already running; a node updates the character
RestartScenario ==
  [script |-> [k \in 1..MaxStarts |-> EventChain], start_node_id |-> None, ids |-> [k \in 1..MaxStarts |-> "wf1"],
   stops |-> 0, events |-> 1, tasks |-> 0,
   faults |-> 0, callbacks |-> FALSE, node_events |-> 0, updates |-> 1]

\* a restart that replaces an event-driven graph by a linear one
ReplaceScenario ==
  [script |-> <<EventChain, LinearChain>>, start_node_id |-> None, ids |-> <<"wf1", "wf1">>, stops |-> 0, events |-> 0, tasks |-> 0,
   faults |-> 0, callbacks |-> FALSE, node_events |-> 0, updates |-> 1]

\* a start with a malformed graph
MalformedScenario ==
  [script |-> <<EmptyGraph>>, start_node_id |-> None, ids |-> <<"wf1">>, stops |-> 1, events |-> 0, tasks |-> 0, faults |-> 0,
   callbacks |-> FALSE, node_events |-> 0, updates |-> 0]

\* two workflows with different ids run side by side; one of them is stopped
TwoWorkflowsScenario ==
  [script |-> <<EventChain, EventChain>>, start_node_id |-> None, ids |-> <<"wf1", "wf2">>, stops |-> 1, events |-> 1,
   tasks |-> 0, faults |-> 0, callbacks |-> FALSE, node_events |-> 0, updates |-> 0]

\* a start with a start_node_id
SubgraphScenario(wd, s) ==
  [script |-> <<wd>>, start_node_id |-> s, ids |-> <<"wf1">>, stops |-> 0, events |-> 0,
   tasks |-> 0, faults |-> 0, callbacks |-> FALSE, node_events |-> 0, updates |-> 0]

\* a node that is no source emits a "message.*" event from its execute()
NodeEmitScenario ==
  [script |-> <<EventChain>>, start_node_id |-> None, ids |-> <<"wf1">>, stops |-> 0,
   events |-> 2, tasks |-> 0, faults |-> 0, callbacks |-> FALSE, node_events |-> 1,
   updates |-> 0]

\* one event goes down a line of nodes, one of which may fail
SkipScenario ==
  [script |-> <<EventLine>>, start_node_id |-> None, ids |-> <<"wf1">>, stops |-> 0,
   events |-> 1, tasks |-> 0, faults |-> 1, callbacks |-> FALSE, node_events |-> 0,
   updates |-> 0]

Scenarios ==
  {Scenario(LinearChain), Scenario(EventTriangle), RestartScenario, ReplaceScenario,
   MalformedScenario, TwoWorkflowsScenario, NodeEmitScenario, SkipScenario}
  \cup {SubgraphScenario(wd, s) : wd \in SubgraphGraphs, s \in NodeIds}

Init == GIdle /\ EInit /\ limits \in Scenarios

Spec == Init /\ [][Next]_vars

\* one start and one stop_workflow call; the node code fails once, emits one
\* event, creates one task and updates the character once
StopScenario(wd) ==
  [script |-> <<wd>>, start_node_id |-> None, ids |-> <<"wf1">>, stops |-> 1, events |-> 1, tasks |-> 1, faults |-> 1,
   callbacks |-> TRUE, node_events |-> 1, updates |-> 1]

StopInit == GIdle /\ EInit /\ limits = StopScenario(EventChain)

\* the steps of _execute_workflow for a graph with a source node
EventExecNext ==
  \E g \in Gens :
    \/ ExecStart(g)
    \/ InitNode(g)
    \/ SetupReturn(g)
    \/ SetupErrorLogRaises(g)
    \/ RunEventDriven(g)
    \/ SourceLoop(g)
    \/ SourceAnnounced(g)
    \/ ExecExcept(g)

\* the steps of an event-driven workflow
StopNext == HostNext \/ TeardownNext \/ EventExecNext \/ ProcNext \/ NodeNext

\* the steps of stop_workflow
StopSteps ==
  \/ StopEnter
  \/ StopAwaited
  \/ TeardownNodes(Host)
  \/ TeardownLoop(Host)
  \/ TeardownReturn(Host)
  \/ StopFinish

\* the event loop of asyncio: a coroutine that is running goes on to its next
\* suspension, a coroutine that is ready is resumed, a cancellation requested
\* for a task is delivered at the await it is suspended in; the teardown()
\* calls and the host callbacks that are awaited return or raise
Fairness ==
  /\ SF_vars(StopSteps)
  /\ \A g \in Gens : SF_vars(ProcCancelled(g) \/ ProcStart(g))
  /\ WF_vars(EventExecNext)
  /\ WF_vars(ProcNext)

SpecStop == StopInit /\ [][StopNext]_vars /\ Fairness

(***************************************************************************)
(* The graph algorithms applied to every small graph                       *)
(***************************************************************************)
ConnPairs == {[from |-> a, to |-> b] : a, b \in NodeIds}

NodeLists == {[i \in 1..Len(p) |-> [id |-> p[i], type |-> t[p[i]]]] :
                p \in {<<"n1", "n2", "n3">>}, t \in [NodeIds -> NodeTypes]}

GraphInit ==
  /\ nodes \in NodeLists
  /\ connections \in SeqsUpTo({c \in ConnPairs : c.from # c.to}, MaxConns)
  /\ call = [fn |-> "none"]
  /\ execution_order = <<>>
  /\ CIdle
  /\ EInit
  /\ limits = [script |-> <<>>, start_node_id |-> None, ids |-> <<>>, stops |-> 0, events |-> 0, tasks |-> 0, faults |-> 0,
               callbacks |-> FALSE, node_events |-> 0, updates |-> 0]

CallGetExecutionOrder ==
  \E set_order \in Perms(NodeIds) :
    /\ call' = [fn |-> "_get_execution_order"]
    /\ execution_order' = GetExecutionOrder(nodes, connections, set_order)
    /\ UNCHANGED <<nodes, connections, cvars, evars>>

CallGetExecutionOrderFrom ==
  \E source_id \in NodeIds :
    /\ call' = [fn |-> "_get_execution_order_from", source_id |-> source_id]
    /\ execution_order' = GetExecutionOrderFrom(source_id, nodes, connections,
                                                BuildAdjacency(nodes, connections))
    /\ UNCHANGED <<nodes, connections, cvars, evars>>

CallGetDownstreamNodes ==
  \E source_id \in NodeIds :
    /\ call' = [fn |-> "_get_downstream_nodes", source_id |-> source_id]
    /\ execution_order' = GetDownstreamNodes(source_id, BuildAdjacency(nodes, connections))
    /\ UNCHANGED <<nodes, connections, cvars, evars>>

GraphNext == CallGetExecutionOrder \/ CallGetExecutionOrderFrom \/ CallGetDownstreamNodes

SpecGraph == GraphInit /\ [][GraphNext]_vars

(***************************************************************************)
(* An event bus on its own: start, stop, subscribe, unsubscribe and emit   *)
(***************************************************************************)
MaxHistory == 2
MaxSubs == 3
MaxEmits == 3
MaxBusStarts == 2

BusPatterns == {"*", "a.*", "a.b"}
BusEventTypes == {"a.b", "axb"}
BusFilterLists == {<<>>, <<[event |-> "a.b", condition |-> NoCondition]>>}

\* the subscriptions made in the model: a pattern, and filters with "*" only
BusSubscriptions ==
  {x \in BusPatterns \X BusFilterLists : x[2] # <<>> => x[1] = "*"}

\* the rest of the program is idle in the component models
NoLimits ==
  [script |-> <<>>, start_node_id |-> None, ids |-> <<>>, stops |-> 0, events |-> 0, tasks |-> 0, faults |-> 0, callbacks |-> FALSE, node_events |-> 0, updates |-> 0]

RestIdle ==
  /\ nodes = <<>>
  /\ connections = <<>>
  /\ call = [fn |-> "none"]
  /\ execution_order = <<>>
  /\ EInit
  /\ limits = NoLimits

\* EventBus._pattern_matches
PatternMatches(pattern, event_type) ==
  IF pattern = "*" THEN TRUE
  ELSE IF InSeq("*", Letters(pattern))
       THEN ReMatch(WildcardRegex(Letters(pattern)), Letters(event_type))
       ELSE pattern = event_type

\* the position of a pattern among the keys of _subscriptions, 0 when absent
PatternIndex(subscriptions, pattern) ==
  IF \E k \in 1..Len(subscriptions) : subscriptions[k].pattern = pattern
  THEN CHOOSE k \in 1..Len(subscriptions) : subscriptions[k].pattern = pattern
  ELSE 0

\* all(f.matches(event) for f in subscription.filters), when there are filters
FiltersPass(subscription, event) ==
  \/ subscription.filters = <<>>
  \/ \A k \in 1..Len(subscription.filters) : FilterMatches(subscription.filters[k], event)

\* emit, lines 205-224, from the position of the frame up to the next callback
\* that is awaited, to the return, or to the RuntimeError that the iterator of
\* the dict raises when a key was added since the loop began
RECURSIVE EmitLoop(_, _)
EmitLoop(b, f) ==
  IF f.pc = "subscriptions"
  THEN IF f.i >= Len(f.subs) THEN EmitLoop(b, [f EXCEPT !.pc = "patterns"])
       ELSE LET subscription == f.subs[f.i + 1]
                g == [f EXCEPT !.i = f.i + 1]
            IN IF ~FiltersPass(subscription, f.event) THEN EmitLoop(b, g)
               ELSE [g EXCEPT !.pc = "callback",
                              !.invoked = Append(@, subscription.callback)]
  ELSE IF Len(b.subscriptions) # f.used THEN [f EXCEPT !.pc = "raised"]
  ELSE IF f.p >= Len(b.subscriptions)
       THEN [f EXCEPT !.pc = "returned", !.ret = f.notified]
  ELSE LET entry == b.subscriptions[f.p + 1]
           g == [f EXCEPT !.p = f.p + 1]
       IN IF ~PatternMatches(entry.pattern, f.event.type) THEN EmitLoop(b, g)
          ELSE EmitLoop(b, [g EXCEPT !.pc = "subscriptions", !.subs = entry.subs,
                                     !.live = TRUE, !.i = 0])

\* an emit call is suspended in a callback
EmitInFlight == emit_call.pc = "callback"

\* EventBus.start
BusStart ==
  /\ bus_log.starts < bus_log.limits.starts
  /\ event_bus' = [event_bus EXCEPT !.running = TRUE, !.event_history = <<>>]
  /\ bus_log' = [bus_log EXCEPT !.starts = @ + 1, !.accepted = <<>>, !.start_result = "ok"]
  /\ UNCHANGED <<emit_call, event_queue, queue_call, filter_call,
                 nodes, connections, call, execution_order, evars>>

\* EventBus.stop
BusStop ==
  /\ event_bus.running
  /\ event_bus' = [event_bus EXCEPT !.running = FALSE]
  /\ UNCHANGED <<bus_log, emit_call, event_queue, queue_call, filter_call,
                 nodes, connections, call, execution_order, evars>>

\* EventBus.subscribe; the callback of the k-th call is the function k.  The
\* list of a pattern is extended in place, under the loop that iterates it.
Subscribe(event_type, filters) ==
  LET subscription == [callback |-> bus_log.subscribed + 1, filters |-> filters,
                       node_id |-> None]
      k == PatternIndex(event_bus.subscriptions, event_type)
  IN /\ bus_log.subscribed < bus_log.limits.subscribed
     /\ event_bus' =
          [event_bus EXCEPT !.subscriptions =
             IF k = 0 THEN Append(@, [pattern |-> event_type, subs |-> <<subscription>>])
             ELSE [@ EXCEPT ![k].subs = Append(@, subscription)]]
     /\ emit_call' =
          IF ~EmitInFlight THEN emit_call
          ELSE [emit_call EXCEPT
                  !.disturbed = TRUE,
                  !.subs = IF emit_call.live /\ k = emit_call.p
                           THEN Append(@, subscription) ELSE @]
     /\ bus_log' = [bus_log EXCEPT !.subscribed = @ + 1]
     /\ UNCHANGED <<event_queue, queue_call, filter_call,
                    nodes, connections, call, execution_order, evars>>

\* EventBus.unsubscribe(event_type, callback): the list of the pattern is
\* replaced by a new list; a loop that iterates the old list keeps it
Unsubscribe(event_type, callback) ==
  LET k == PatternIndex(event_bus.subscriptions, event_type)
      old == event_bus.subscriptions[k].subs
  IN /\ bus_log.unsubscribed < bus_log.limits.unsubscribed
     /\ k # 0
     /\ \E j \in 1..Len(old) : old[j].callback = callback
     /\ event_bus' =
          [event_bus EXCEPT !.subscriptions[k].subs =
             FilterIn(old, {x \in SeqToSet(old) : x.callback # callback})]
     /\ emit_call' =
          IF ~EmitInFlight THEN emit_call
          ELSE [emit_call EXCEPT !.disturbed = TRUE,
                                 !.live = IF k = emit_call.p THEN FALSE ELSE @]
     /\ bus_log' = [bus_log EXCEPT !.unsubscribed = @ + 1,
                                   !.removal = [emits |-> bus_log.emits, op |-> "unsubscribe", event_type |-> event_type,
                                                callback |-> callback]]
     /\ UNCHANGED <<event_queue, queue_call, filter_call,
                    nodes, connections, call, execution_order, evars>>

\* an emit that dispatches whether the bus is running or not
EmitWithoutRunningCheck(event_type) ==
  LET event == [type |-> event_type, payload |-> <<>>, id |-> bus_log.emits + 1]
      appended == Append(event_bus.event_history, event)
      history == IF Len(appended) > event_bus.max_history
                 THEN SubSeq(appended, Len(appended) - event_bus.max_history + 1,
                             Len(appended))
                 ELSE appended
      frame == [NoEmit EXCEPT !.event = event, !.was_running = event_bus.running]
  IN /\ ~EmitInFlight
     /\ bus_log.emits < bus_log.limits.emits
     /\ IF FALSE
        THEN /\ emit_call' = [frame EXCEPT !.pc = "returned", !.ret = 0]
             /\ bus_log' = [bus_log EXCEPT !.emits = @ + 1]
             /\ UNCHANGED event_bus
        ELSE /\ event_bus' = [event_bus EXCEPT !.event_history = history]
             /\ emit_call' =
                  EmitLoop(event_bus, [frame EXCEPT !.pc = "patterns",
                                                    !.used = Len(event_bus.subscriptions)])
             /\ bus_log' = [bus_log EXCEPT !.emits = @ + 1, !.accepted = Append(@, event)]
     /\ UNCHANGED <<event_queue, queue_call, filter_call,
                    nodes, connections, call, execution_order, evars>>

\* an emit that cuts the history to its first max_history entries
EmitKeepsOldest(event_type) ==
  LET event == [type |-> event_type, payload |-> <<>>, id |-> bus_log.emits + 1]
      appended == Append(event_bus.event_history, event)
      history == IF Len(appended) > event_bus.max_history
                 THEN SubSeq(appended, 1, event_bus.max_history)
                 ELSE appended
      frame == [NoEmit EXCEPT !.event = event, !.was_running = event_bus.running]
  IN /\ ~EmitInFlight
     /\ bus_log.emits < bus_log.limits.emits
     /\ IF ~event_bus.running
        THEN /\ emit_call' = [frame EXCEPT !.pc = "returned", !.ret = 0]
             /\ bus_log' = [bus_log EXCEPT !.emits = @ + 1]
             /\ UNCHANGED event_bus
        ELSE /\ event_bus' = [event_bus EXCEPT !.event_history = history]
             /\ emit_call' =
                  EmitLoop(event_bus, [frame EXCEPT !.pc = "patterns",
                                                    !.used = Len(event_bus.subscriptions)])
             /\ bus_log' = [bus_log EXCEPT !.emits = @ + 1, !.accepted = Append(@, event)]
     /\ UNCHANGED <<event_queue, queue_call, filter_call,
                    nodes, connections, call, execution_order, evars>>

\* EventBus.emit up to its first suspension: nothing happens on a bus that
\* is not running; otherwise the event goes to the history, which is cut to
\* its last max_history entries, and the loop begins
Emit(event_type) ==
  LET event == [type |-> event_type, payload |-> <<>>, id |-> bus_log.emits + 1]
      appended == Append(event_bus.event_history, event)
      history == IF Len(appended) > event_bus.max_history
                 THEN SubSeq(appended, Len(appended) - event_bus.max_history + 1,
                             Len(appended))
                 ELSE appended
      frame == [NoEmit EXCEPT !.event = event, !.was_running = event_bus.running]
  IN /\ ~EmitInFlight
     /\ bus_log.emits < bus_log.limits.emits
     /\ IF ~event_bus.running
        THEN /\ emit_call' = [frame EXCEPT !.pc = "returned", !.ret = 0]
             /\ bus_log' = [bus_log EXCEPT !.emits = @ + 1]
             /\ UNCHANGED event_bus
        ELSE /\ event_bus' = [event_bus EXCEPT !.event_history = history]
             /\ emit_call' =
                  EmitLoop(event_bus, [frame EXCEPT !.pc = "patterns",
                                                    !.used = Len(event_bus.subscriptions)])
             /\ bus_log' = [bus_log EXCEPT !.emits = @ + 1, !.accepted = Append(@, event)]
     /\ UNCHANGED <<event_queue, queue_call, filter_call,
                    nodes, connections, call, execution_order, evars>>

\* the awaited callback returns: it is counted, lines 213-219
CallbackReturns ==
  /\ EmitInFlight
  /\ emit_call' = EmitLoop(event_bus, [emit_call EXCEPT !.pc = "subscriptions",
                                                         !.notified = @ + 1])
  /\ UNCHANGED <<event_bus, bus_log, event_queue, queue_call, filter_call,
                 nodes, connections, call, execution_order, evars>>

\* a callback whose exception leaves emit
CallbackRaisesOut ==
  /\ EmitInFlight
  /\ emit_call' = [emit_call EXCEPT !.pc = "raised",
                      !.raised = @ \cup {emit_call.invoked[Len(emit_call.invoked)]}]
  /\ UNCHANGED <<event_bus, bus_log, event_queue, queue_call, filter_call,
                 nodes, connections, call, execution_order, evars>>

\* the awaited callback raises: the exception is logged, lines 220-222
CallbackRaises ==
  /\ EmitInFlight
  /\ emit_call' = EmitLoop(event_bus,
                           [emit_call EXCEPT
                              !.pc = "subscriptions",
                              !.raised = @ \cup {emit_call.invoked[Len(emit_call.invoked)]}])
  /\ UNCHANGED <<event_bus, bus_log, event_queue, queue_call, filter_call,
                 nodes, connections, call, execution_order, evars>>

\* what the callers of the bus do in a behaviour: many subscriptions and one
\* emit on a bus started once, or many emits, starts and stops with one
\* subscription
DispatchScenario == [starts |-> 1, subscribed |-> MaxSubs, unsubscribed |-> 1, emits |-> 1]

HistoryScenario ==
  [starts |-> MaxBusStarts, subscribed |-> 1, unsubscribed |-> 0, emits |-> MaxEmits]

BusInit ==
  /\ RestIdle
  /\ \/ /\ event_bus = NewEventBus(MaxHistory)
        /\ bus_log = [NoBusLog EXCEPT !.limits = DispatchScenario]
     \/ /\ event_bus \in {NewEventBus(h) : h \in 1..MaxHistory}
        /\ bus_log = [NoBusLog EXCEPT !.limits = HistoryScenario]
  /\ emit_call = NoEmit
  /\ event_queue = NewEventQueue(QueueMaxSize)
  /\ queue_call = NoQueueCall
  /\ filter_call = NoFilterCall

BusNext ==
  \/ BusStart
  \/ BusStop
  \/ \E x \in BusSubscriptions : Subscribe(x[1], x[2])
  \/ \E event_type \in BusPatterns, callback \in 1..MaxSubs : Unsubscribe(event_type, callback)
  \/ \E event_type \in BusEventTypes : Emit(event_type)
  \/ CallbackReturns
  \/ CallbackRaises

SpecBus == BusInit /\ [][BusNext]_vars

(***************************************************************************)
(* _node_accepts_event applied to small nodes and events                   *)
(***************************************************************************)
MaxFilters == 2

FilterPatterns == {"a.*", "a.b", "*b"}
FilterEventTypes == {"a.b", "axb", "a"}
FilterConditions == {NoCondition, [field |-> "amount", op |-> ">", value |-> 100]}

\* the entries of eventFilters: an event name or none, a condition or none
FilterDefs ==
  [event : FilterPatterns \cup {None}, condition : FilterConditions]

\* the payloads, as lists of key and value in the order of the dict
Payloads ==
  {<<>>, <<[key |-> "amount", value |-> 50]>>, <<[key |-> "amount", value |-> 500]>>,
   <<[key |-> "a", value |-> 1], [key |-> "amount", value |-> 500]>>,
   <<[key |-> "amount", value |-> 500], [key |-> "a", value |-> 1]>>}

\* the nodes: without filters, with eventFilters, with the key event_filters,
\* and with an empty eventFilters beside event_filters
FilteredNodes ==
  LET plain == [id |-> "n1", type |-> "text-transform"]
      lists == SeqsUpTo(FilterDefs, MaxFilters)
  IN {plain}
       \cup {[id |-> "n1", type |-> "text-transform", eventFilters |-> fs] : fs \in lists}
       \cup {[id |-> "n1", type |-> "text-transform", event_filters |-> fs] :
               fs \in {x \in lists : Len(x) = 1}}
       \cup {[id |-> "n1", type |-> "text-transform", eventFilters |-> <<>>,
               event_filters |-> fs] : fs \in {x \in lists : Len(x) = 1}}

FilterInit ==
  /\ nodes \in {<<node>> : node \in FilteredNodes}
  /\ connections = <<>>
  /\ call = [fn |-> "none"]
  /\ execution_order = <<>>
  /\ EInit
  /\ limits = NoLimits
  /\ event_bus = NewEventBus(DefaultMaxHistory)
  /\ emit_call = NoEmit
  /\ bus_log = NoBusLog
  /\ event_queue = NewEventQueue(QueueMaxSize)
  /\ queue_call = NoQueueCall
  /\ filter_call \in {[NoFilterCall EXCEPT !.event = [type |-> t, payload |-> pl]] :
                        t \in FilterEventTypes, pl \in Payloads}

CallNodeAcceptsEvent ==
  /\ filter_call.fn = "none"
  /\ filter_call' = [filter_call EXCEPT
                       !.fn = "_node_accepts_event",
                       !.ret = NodeAcceptsEvent(nodes[1], filter_call.event)]
  /\ UNCHANGED <<nodes, connections, call, execution_order, event_bus, emit_call, bus_log,
                 event_queue, queue_call, evars>>

FilterNext == CallNodeAcceptsEvent

SpecFilter == FilterInit /\ [][FilterNext]_vars

(***************************************************************************)
(* An event queue on its own: put and get                                  *)
(***************************************************************************)
MaxCapacity == 3
MaxPuts == 6

\* a put that makes room by dropping the oldest item
QueuePutDropsOldest ==
  LET item == queue_call.puts + 1
      full == Len(event_queue.items) >= event_queue.max_size
  IN /\ queue_call.puts < MaxPuts
     /\ event_queue' =
          IF full THEN [event_queue EXCEPT !.items = Append(Tail(@), item),
                                           !.dropped_count = @ + 1]
          ELSE [event_queue EXCEPT !.items = Append(@, item)]
     /\ queue_call' = [queue_call EXCEPT !.op = "put", !.ret = ~full, !.item = item,
                                         !.puts = @ + 1,
                                         !.refused = IF full THEN @ + 1 ELSE @]
     /\ UNCHANGED <<nodes, connections, call, execution_order, event_bus, emit_call,
                    bus_log, filter_call, evars>>

\* EventQueue.put: put_nowait raises QueueFull when qsize() >= maxsize; the
\* k-th put carries the item k
QueuePut ==
  LET item == queue_call.puts + 1
      full == Len(event_queue.items) >= event_queue.max_size
  IN /\ queue_call.puts < MaxPuts
     /\ event_queue' =
          IF full THEN [event_queue EXCEPT !.dropped_count = @ + 1]
          ELSE [event_queue EXCEPT !.items = Append(@, item)]
     /\ queue_call' = [queue_call EXCEPT !.op = "put", !.ret = ~full, !.item = item,
                                         !.puts = @ + 1,
                                         !.refused = IF full THEN @ + 1 ELSE @]
     /\ UNCHANGED <<nodes, connections, call, execution_order, event_bus, emit_call,
                    bus_log, filter_call, evars>>

\* EventQueue.get returns the oldest item; it blocks while there is none
QueueGet ==
  /\ event_queue.items # <<>>
  /\ event_queue' = [event_queue EXCEPT !.items = Tail(@)]
  /\ queue_call' = [queue_call EXCEPT !.op = "get", !.ret = TRUE,
                                      !.item = Head(event_queue.items), !.gets = @ + 1]
  /\ UNCHANGED <<nodes, connections, call, execution_order, event_bus, emit_call,
                 bus_log, filter_call, evars>>

QueueInit ==
  /\ RestIdle
  /\ event_bus = NewEventBus(DefaultMaxHistory)
  /\ emit_call = NoEmit
  /\ bus_log = NoBusLog
  /\ event_queue \in {NewEventQueue(c) : c \in 1..MaxCapacity}
  /\ queue_call = NoQueueCall
  /\ filter_call = NoFilterCall

QueueNext == QueuePut \/ QueueGet

SpecQueue == QueueInit /\ [][QueueNext]_vars

(***************************************************************************)
(* start_workflow wiring the event callback of the host to the bus         *)
(***************************************************************************)
\* bounds: subscriptions made by the nodes and the runner, and emit calls
MaxForwardSubs == 2
MaxForwardEmits == 2

\* forward_event, the closure start_workflow subscribes: callback number 0,
\* the callbacks of the other subscribers being numbered from 1
ForwardEvent == 0

\* the patterns the runner and the nodes subscribe under
ForwardPatterns == {"timer.*", "audio.*"}

\* the event types emitted on the bus of the workflow
ForwardEventTypes ==
  {"audio.play", "audio.", "audio", "avatar.move", "subtitle", "subtitles",
   "my.audio.play", "timer.tick"}

\* str.startswith
StartsWith(text, prefix) ==
  Len(text) >= Len(prefix) /\ SubSeq(text, 1, Len(prefix)) = prefix

\* the condition of forward_event, lines 329-331
Forwards(event_type) ==
  \/ StartsWith(Letters(event_type), Letters("audio."))
  \/ StartsWith(Letters(event_type), Letters("avatar."))
  \/ event_type = "subtitle"

\* the callback the suspended emit call awaits
CurrentCallback == emit_call.invoked[Len(emit_call.invoked)]

\* set_event_callback, lines 154-156
SetEventCallback ==
  /\ ~bus_log.event_callback
  /\ bus_log' = [bus_log EXCEPT !.event_callback = TRUE]
  /\ UNCHANGED <<event_bus, emit_call, event_queue, queue_call, filter_call,
                 nodes, connections, call, execution_order, evars>>

\* a start_workflow that does not subscribe forward_event under "subtitle"
StartForwardingWithoutSubtitle ==
  LET subscription == [callback |-> ForwardEvent, filters |-> <<>>, node_id |-> None]
  IN /\ bus_log.starts < bus_log.limits.starts
     /\ event_bus' =
          [NewEventBus(DefaultMaxHistory) EXCEPT
             !.running = TRUE,
             !.subscriptions =
               IF bus_log.event_callback
               THEN <<[pattern |-> "audio.*", subs |-> <<subscription>>],
                    [pattern |-> "avatar.*", subs |-> <<subscription>>]>>
               ELSE <<>>]
     /\ bus_log' = [bus_log EXCEPT !.starts = @ + 1, !.start_result = "ok",
                                   !.wired = bus_log.event_callback]
     /\ UNCHANGED <<emit_call, event_queue, queue_call, filter_call,
                    nodes, connections, call, execution_order, evars>>

\* start_workflow, lines 315-336: a new bus, started, and, when an event
\* callback is registered for the id, forward_event subscribed under
\* "audio.*", "avatar.*" and "subtitle"
StartForwarding ==
  LET subscription == [callback |-> ForwardEvent, filters |-> <<>>, node_id |-> None]
  IN /\ bus_log.starts < bus_log.limits.starts
     /\ event_bus' =
          [NewEventBus(DefaultMaxHistory) EXCEPT
             !.running = TRUE,
             !.subscriptions =
               IF bus_log.event_callback
               THEN <<[pattern |-> "audio.*", subs |-> <<subscription>>],
                    [pattern |-> "avatar.*", subs |-> <<subscription>>],
                    [pattern |-> "subtitle", subs |-> <<subscription>>]>>
               ELSE <<>>]
     /\ bus_log' = [bus_log EXCEPT !.starts = @ + 1, !.start_result = "ok",
                                   !.wired = bus_log.event_callback]
     /\ UNCHANGED <<emit_call, event_queue, queue_call, filter_call,
                    nodes, connections, call, execution_order, evars>>

\* forward_event, lines 327-332, awaited by emit: the event callback of the
\* host is awaited when the type passes the condition, and returns
ForwardEventReturns ==
  /\ EmitInFlight
  /\ CurrentCallback = ForwardEvent
  /\ bus_log' = [bus_log EXCEPT !.forwarded =
                    IF Forwards(emit_call.event.type)
                    THEN Append(@, emit_call.event.id) ELSE @]
  /\ emit_call' = EmitLoop(event_bus, [emit_call EXCEPT !.pc = "subscriptions",
                                                         !.notified = @ + 1])
  /\ UNCHANGED <<event_bus, event_queue, queue_call, filter_call,
                 nodes, connections, call, execution_order, evars>>

\* forward_event: the event callback of the host raises; the exception leaves
\* forward_event and is logged by emit, lines 220-222
ForwardEventRaises ==
  /\ EmitInFlight
  /\ CurrentCallback = ForwardEvent
  /\ Forwards(emit_call.event.type)
  /\ bus_log' = [bus_log EXCEPT !.forwarded = Append(@, emit_call.event.id)]
  /\ emit_call' = EmitLoop(event_bus,
                           [emit_call EXCEPT !.pc = "subscriptions",
                                             !.raised = @ \cup {ForwardEvent}])
  /\ UNCHANGED <<event_bus, event_queue, queue_call, filter_call,
                 nodes, connections, call, execution_order, evars>>

\* what happens on the bus of one workflow in a behaviour
ForwardScenario ==
  [starts |-> 1, subscribed |-> MaxForwardSubs, unsubscribed |-> 0,
   emits |-> MaxForwardEmits]

ForwardInit ==
  /\ RestIdle
  /\ event_bus = NewEventBus(DefaultMaxHistory)
  /\ bus_log = [NoBusLog EXCEPT !.limits = ForwardScenario]
  /\ emit_call = NoEmit
  /\ event_queue = NewEventQueue(QueueMaxSize)
  /\ queue_call = NoQueueCall
  /\ filter_call = NoFilterCall

ForwardNext ==
  \/ SetEventCallback
  \/ StartForwarding
  \/ bus_log.starts > 0 /\ BusStop
  \/ bus_log.starts > 0 /\ \E event_type \in ForwardPatterns : Subscribe(event_type, <<>>)
  \/ bus_log.starts > 0 /\ \E event_type \in ForwardEventTypes : Emit(event_type)
  \/ EmitInFlight /\ CurrentCallback # ForwardEvent /\ CallbackReturns
  \/ EmitInFlight /\ CurrentCallback # ForwardEvent /\ CallbackRaises
  \/ ForwardEventReturns
  \/ ForwardEventRaises

SpecForward == ForwardInit /\ [][ForwardNext]_vars

(***************************************************************************)
(* Removal of subscriptions: unsubscribe and clear_subscriptions           *)
(***************************************************************************)
MaxRemovalSubs == 2

RemovalPatterns == {"a.*", "a.b"}
RemovalCallbacks == {1, 2}
RemovalNodeIds == {"n1", "n2"}

\* EventBus.subscribe with a callback that may be subscribed more than once
\* and with the node that owns the subscription, or None
SubscribeNode(event_type, callback, node_id) ==
  LET subscription == [callback |-> callback, filters |-> <<>>, node_id |-> node_id]
      k == PatternIndex(event_bus.subscriptions, event_type)
  IN /\ bus_log.subscribed < bus_log.limits.subscribed
     /\ event_bus' =
          [event_bus EXCEPT !.subscriptions =
             IF k = 0 THEN Append(@, [pattern |-> event_type, subs |-> <<subscription>>])
             ELSE [@ EXCEPT ![k].subs = Append(@, subscription)]]
     /\ emit_call' =
          IF ~EmitInFlight THEN emit_call
          ELSE [emit_call EXCEPT
                  !.disturbed = TRUE,
                  !.subs = IF emit_call.live /\ k = emit_call.p
                           THEN Append(@, subscription) ELSE @]
     /\ bus_log' = [bus_log EXCEPT !.subscribed = @ + 1]
     /\ UNCHANGED <<event_queue, queue_call, filter_call,
                    nodes, connections, call, execution_order, evars>>

\* EventBus.unsubscribe(event_type, node_id=node_id), lines 177-181: without
\* a callback, the subscriptions of the node under the pattern are dropped
UnsubscribeNode(event_type, node_id) ==
  LET k == PatternIndex(event_bus.subscriptions, event_type)
      old == event_bus.subscriptions[k].subs
  IN /\ bus_log.unsubscribed < bus_log.limits.unsubscribed
     /\ k # 0
     /\ event_bus' =
          [event_bus EXCEPT !.subscriptions[k].subs =
             FilterIn(old, {x \in SeqToSet(old) : x.node_id # node_id})]
     /\ emit_call' =
          IF ~EmitInFlight THEN emit_call
          ELSE [emit_call EXCEPT !.disturbed = TRUE,
                                 !.live = IF k = emit_call.p THEN FALSE ELSE @]
     /\ bus_log' = [bus_log EXCEPT !.unsubscribed = @ + 1,
                                   !.removal = [emits |-> bus_log.emits, op |-> "unsubscribe_node",
                                                event_type |-> event_type,
                                                node_id |-> node_id]]
     /\ UNCHANGED <<event_queue, queue_call, filter_call,
                    nodes, connections, call, execution_order, evars>>

\* a clear_subscriptions(node_id) that drops every subscription
ClearSubscriptionsDropsAll(node_id) ==
  /\ bus_log.unsubscribed < bus_log.limits.unsubscribed
  /\ event_bus' =
       [event_bus EXCEPT !.subscriptions =
          [k \in 1..Len(@) |-> [@[k] EXCEPT !.subs = <<>>]]]
  /\ emit_call' =
       IF ~EmitInFlight THEN emit_call
       ELSE [emit_call EXCEPT !.disturbed = TRUE, !.live = FALSE]
  /\ bus_log' = [bus_log EXCEPT !.unsubscribed = @ + 1,
                                !.removal = [emits |-> bus_log.emits, op |-> "clear_subscriptions",
                                             node_id |-> node_id]]
  /\ UNCHANGED <<event_queue, queue_call, filter_call,
                 nodes, connections, call, execution_order, evars>>

\* EventBus.clear_subscriptions(node_id), lines 237-242: the list of every
\* pattern is replaced by the list of the subscriptions of the other nodes
ClearSubscriptions(node_id) ==
  /\ bus_log.unsubscribed < bus_log.limits.unsubscribed
  /\ event_bus' =
       [event_bus EXCEPT !.subscriptions =
          [k \in 1..Len(@) |->
             [@[k] EXCEPT !.subs = FilterIn(@, {x \in SeqToSet(@) : x.node_id # node_id})]]]
  /\ emit_call' =
       IF ~EmitInFlight THEN emit_call
       ELSE [emit_call EXCEPT !.disturbed = TRUE, !.live = FALSE]
  /\ bus_log' = [bus_log EXCEPT !.unsubscribed = @ + 1,
                                !.removal = [emits |-> bus_log.emits, op |-> "clear_subscriptions",
                                             node_id |-> node_id]]
  /\ UNCHANGED <<event_queue, queue_call, filter_call,
                 nodes, connections, call, execution_order, evars>>

\* EventBus.clear_subscriptions(), lines 243-244: self._subscriptions.clear()
ClearAllSubscriptions ==
  /\ bus_log.unsubscribed < bus_log.limits.unsubscribed
  /\ event_bus' = [event_bus EXCEPT !.subscriptions = <<>>]
  /\ emit_call' =
       IF ~EmitInFlight THEN emit_call
       ELSE [emit_call EXCEPT !.disturbed = TRUE, !.live = FALSE]
  /\ bus_log' = [bus_log EXCEPT !.unsubscribed = @ + 1,
                                !.removal = [emits |-> bus_log.emits, op |-> "clear_subscriptions", node_id |-> None]]
  /\ UNCHANGED <<event_queue, queue_call, filter_call,
                 nodes, connections, call, execution_order, evars>>

\* subscriptions of two nodes and of no node, one removal at any moment, one
\* event emitted at any moment
RemovalScenario ==
  [starts |-> 1, subscribed |-> MaxRemovalSubs, unsubscribed |-> 1, emits |-> 1]

RemovalInit ==
  /\ RestIdle
  /\ event_bus = NewEventBus(DefaultMaxHistory)
  /\ bus_log = [NoBusLog EXCEPT !.limits = RemovalScenario]
  /\ emit_call = NoEmit
  /\ event_queue = NewEventQueue(QueueMaxSize)
  /\ queue_call = NoQueueCall
  /\ filter_call = NoFilterCall

RemovalNext ==
  \/ BusStart
  \/ \E event_type \in RemovalPatterns, callback \in RemovalCallbacks,
        node_id \in RemovalNodeIds \cup {None} :
       SubscribeNode(event_type, callback, node_id)
  \/ \E event_type \in RemovalPatterns, callback \in RemovalCallbacks :
       Unsubscribe(event_type, callback)
  \/ \E event_type \in RemovalPatterns, node_id \in RemovalNodeIds :
       UnsubscribeNode(event_type, node_id)
  \/ \E node_id \in RemovalNodeIds : ClearSubscriptions(node_id)
  \/ ClearAllSubscriptions
  \/ bus_log.starts > 0 /\ Emit("a.b")
  \/ CallbackReturns
  \/ CallbackRaises

SpecRemoval == RemovalInit /\ [][RemovalNext]_vars

(***************************************************************************)
(* Properties of start_workflow and stop_workflow                          *)
(***************************************************************************)
\* the supervisor maps that hold an entry for w
SupervisorMaps(w) ==
  {m \in {"running_workflows", "event_buses", "event_queues", "node_instances",
          "source_nodes", "queue_processors", "background_tasks"} :
     \/ m = "running_workflows" /\ w \in DOMAIN running_workflows
     \/ m = "event_buses" /\ w \in DOMAIN event_buses
     \/ m = "event_queues" /\ w \in DOMAIN event_queues
     \/ m = "node_instances" /\ w \in DOMAIN node_instances
     \/ m = "source_nodes" /\ w \in DOMAIN source_nodes
     \/ m = "queue_processors" /\ w \in DOMAIN queue_processors
     \/ m = "background_tasks" /\ w \in DOMAIN background_tasks}

\* C1: once stop_workflow(id) has returned and no later start was issued for
\* the id, no supervisor map contains the id, at that moment or afterwards,
\* whatever the task spawned by start_workflow had done when stop was called.
C1_StoppedIdInNoMap == \A w \in stopped : SupervisorMaps(w) = {}

\* C2: after stop_workflow(id) has returned, no task that was registered for
\* the workflow through create_task and unfinished at the call is running.
C2_StopCancelsBackgroundTasks ==
  \A w \in stopped : \A b \in stop_snapshot : bg[b].w = w => bg[b].state # "running"

\* the host is inside stop_workflow, at or after the teardown of the nodes
StopTearingDown ==
  /\ task[Host].op = "stop"
  /\ task[Host].pc \in {"teardown", "teardown_loop", "teardown_wait", "stop_finish"}

\* C3: stop_workflow(id) first cancels and awaits the queue drainer, then
\* cancels and awaits every registered background task, then tears the nodes
\* down, and stops the bus and drops the entries only after that: when the
\* teardown begins no cancelled drainer is still alive and no task registered
\* at the call is still running, and while it lasts the bus, the queue, the
\* registry and the running entry are still in place.
C3_StopOrder ==
  StopTearingDown =>
    /\ \A g \in Gens : ~task[Proc(g)].cancel
    /\ \A b \in stop_snapshot : bg[b].state # "running"
    /\ task[Host].pc # "stop_finish" =>
         /\ task[Host].w \in DOMAIN running_workflows
         /\ task[Host].w \in DOMAIN event_buses => bus[event_buses[task[Host].w]].running

\* the queue drainers of w that have been created and have not ended
LiveDrainers(w) == {g \in Gens : task[Proc(g)].w = w /\ task[Proc(g)].pc \notin {"none", "done"}}

\* the tasks of w that are inside a node's execute()
Executing(w) == {t \in TaskIds : task[t].w = w /\ task[t].pc = "execute_wait"}

\* C4: in event-driven mode a workflow id has at any time at most one live
\* queue drainer, at most one queued event being processed and at most one
\* node execution in progress, whatever the start, stop and restart calls.
C4_SingleDrainer ==
  \A w \in WorkflowIds :
    /\ Cardinality(LiveDrainers(w)) <= 1
    /\ Cardinality({g \in LiveDrainers(w) : task[Proc(g)].event # NoEvent}) <= 1
    /\ Cardinality(Executing(w)) <= 1

(***************************************************************************)
(* Properties of the execution orders                                      *)
(***************************************************************************)
\* there is a connection from a to b in the graph handed to the algorithms
Edge(a, b) == \E i \in 1..Len(connections) : connections[i].from = a /\ connections[i].to = b

\* the nodes that can be reached from a node of S along connections
RECURSIVE Closure(_)
Closure(S) ==
  LET next == S \cup {b \in NodeIds : \E a \in S : Edge(a, b)}
  IN IF next = S THEN S ELSE Closure(next)

Acyclic == \A n \in NodeIds : n \notin Closure({b \in NodeIds : Edge(n, b)})

StartIds == {nodes[i].id : i \in {j \in 1..Len(nodes) : nodes[j].type = "start"}}

ZeroInDegreeIds == {n \in NodeIds : \A a \in NodeIds : ~Edge(a, n)}

EntrySet == IF StartIds # {} THEN StartIds ELSE ZeroInDegreeIds

LinearOrderReturned == call.fn = "_get_execution_order"

\* C5: over an acyclic graph the order that the linear runner executes holds
\* every node reachable from the entry set exactly once, and for every
\* connection A -> B between reachable nodes A comes before B.
C5_LinearOrderTopological ==
  LinearOrderReturned /\ Acyclic =>
    /\ NoDuplicates(execution_order)
    /\ SeqToSet(execution_order) = Closure(EntrySet)
    /\ \A a, b \in Closure(EntrySet) :
         Edge(a, b) => IndexOf(a, execution_order) < IndexOf(b, execution_order)

\* an acyclic graph in which a node has two predecessors, all three executed
C5_Witness ==
  /\ LinearOrderReturned
  /\ Acyclic
  /\ Len(execution_order) = 3
  /\ \E a, b, c \in NodeIds : a # b /\ Edge(a, c) /\ Edge(b, c)

\* C6: if a node of type start exists, the entry set is the start nodes and
\* only nodes reachable from a start node are in the executed order; if none
\* exists, the entry set is every node of in-degree 0.  Entry nodes without
\* an incoming connection are always executed.
C6_EntryPointPolicy ==
  LinearOrderReturned =>
    /\ SeqToSet(execution_order) \subseteq Closure(EntrySet)
    /\ EntrySet \cap ZeroInDegreeIds \subseteq SeqToSet(execution_order)
    /\ StartIds # {} =>
         \A n \in ZeroInDegreeIds \ Closure(StartIds) : ~InSeq(n, execution_order)

\* a start node is executed and a node of in-degree 0 that feeds another node
\* is left out together with that node
C6_Witness ==
  /\ LinearOrderReturned
  /\ StartIds # {}
  /\ execution_order # <<>>
  /\ \E n \in ZeroInDegreeIds \ StartIds, m \in NodeIds :
       Edge(n, m) /\ ~InSeq(n, execution_order) /\ ~InSeq(m, execution_order)

\* C7: the downstream nodes executed for one event are executed in a
\* topological order: no node is executed before a node that feeds it and is
\* executed for the same event.
C7_DownstreamKahnOrder ==
  \A g \in Gens :
    LET f == task[Proc(g)]
    IN \A i, j \in 1..Len(f.executed) :
         i < j => \A c \in 1..Len(f.data.connections) :
                    ~(f.data.connections[c].from = f.executed[j]
                      /\ f.data.connections[c].to = f.executed[i])

(***************************************************************************)
(* Properties of node errors                                               *)
(***************************************************************************)
\* this step is the return of an execute() call of task t that raised
ExecuteRaised(t) ==
  /\ task[t].pc = "execute_wait"
  /\ task'[t] # task[t]
  /\ faults' = faults + 1

C9_LinearErrorAborts ==
  [][\A g \in Gens :
       LET f == task[Exec(g)]
           f2 == task'[Exec(g)]
       IN /\ ExecuteRaised(Exec(g)) =>
               /\ <<f.order[f.i], "error">> \in f2.status
               /\ f2.pc = "except"
               /\ f2.executed = f.executed
               /\ running_workflows' = running_workflows
          /\ f.pc = "except" /\ f2 # f =>
               /\ f2.pc = "aborted"
               /\ f.w \in DOMAIN running_workflows =>
                    /\ running_workflows'[f.w].status = "error"
                    /\ running_workflows'[f.w].error # None
          /\ f.pc = "aborted" => f2 = f]_vars

\* a linear run has ended after execute() of a node raised, and the workflow
\* status is error
C9_Witness ==
  \E g \in Gens :
    /\ task[Exec(g)].pc = "aborted"
    /\ faults = 1
    /\ \A x \in InstIds : inst[x].setup # "raised"
    /\ stop_calls = 0
    /\ task[Exec(g)].w \in DOMAIN running_workflows
    /\ running_workflows[task[Exec(g)].w].status = "error"
    /\ running_workflows[task[Exec(g)].w].error # None
    /\ SourceNodeList(running_workflows[task[Exec(g)].w].workflow_data.nodes) = <<>>

\* C10: after a linear run has aborted with a node error and no stop call was
\* made, every instantiated node has been torn down, the event bus is stopped
\* and no supervisor map holds the workflow id.
C10_AbortCleansUp ==
  \A g \in Gens :
    task[Exec(g)].pc = "aborted" /\ faults > 0 /\ stop_calls = 0 =>
      /\ \A n \in NodeIds : inst[<<g, n>>].setup # "none" => inst[<<g, n>>].torn > 0
      /\ ~bus[g].running
      /\ SupervisorMaps(task[Exec(g)].w) = {}

(***************************************************************************)
(* Properties of the cleanup after a linear run                            *)
(***************************************************************************)
\* this step is the last one of _cleanup_completed_workflow in run g
CleanupFinished(g) ==
  /\ task[Exec(g)].pc = "cleanup_finish"
  /\ task'[Exec(g)].pc = "done"

\* every node instantiated by run g has had teardown() called, its bus stopped
TornDown(g) ==
  /\ \A n \in NodeIds : inst[<<g, n>>].setup # "none" => inst[<<g, n>>].torn > 0
  /\ ~bus[g].running

\* C11: when the cleanup after the last node of a linear run has finished,
\* teardown() has been called for every node, the bus is stopped and no
\* supervisor map, the running-workflows map included, holds the id.  Stated
\* for runs that no stop call and no restart interferes with.
C11_CompletedLeavesEveryMap ==
  [][\A g \in Gens :
       CleanupFinished(g) /\ stop_calls = 0 /\ starts = 1 =>
         TornDown(g)' /\ SupervisorMaps(task[Exec(g)].w)' = {}]_vars

(***************************************************************************)
(* Properties of the event bus                                             *)
(***************************************************************************)
\* this step is the call of emit
EmitCalled == bus_log'.emits = bus_log.emits + 1

\* the subscriptions of the bus that an event matches, pattern and filters
Matching(b, event) ==
  {<<k, j>> \in (1..Len(b.subscriptions)) \X (1..MaxSubs + 1) :
     /\ j <= Len(b.subscriptions[k].subs)
     /\ PatternMatches(b.subscriptions[k].pattern, event.type)
     /\ FiltersPass(b.subscriptions[k].subs[j], event)}

\* C12: emit on a bus that is not running (stopped, or never started)
\* returns 0, invokes no callback and leaves the event history and the
\* subscription table unchanged.
C12_EmitNotRunning ==
  [][EmitCalled /\ ~event_bus.running =>
       /\ emit_call'.pc = "returned"
       /\ emit_call'.ret = 0
       /\ emit_call'.invoked = <<>>
       /\ event_bus' = event_bus]_vars

\* an emit has returned on a bus that was started, given a subscription that
\* the event matches, and stopped
C12_Witness ==
  /\ emit_call.pc = "returned"
  /\ ~emit_call.was_running
  /\ bus_log.starts > 0
  /\ Matching(event_bus, emit_call.event) # {}
  /\ emit_call.ret = 0
  /\ emit_call.invoked = <<>>

\* the last k entries of a sequence
LastOf(seq, k) == SubSeq(seq, Len(seq) - k + 1, Len(seq))

\* C13: in every reachable state of a bus the event history holds at most
\* max_history entries, and it is the most recent min(n, max_history) events
\* accepted by emit since the last start, oldest first.
C13_HistoryMostRecent ==
  LET n == Len(bus_log.accepted)
      k == IF n < event_bus.max_history THEN n ELSE event_bus.max_history
  IN /\ Len(event_bus.event_history) <= event_bus.max_history
     /\ event_bus.event_history = LastOf(bus_log.accepted, k)

\* more events than max_history were accepted since the last start, by a bus
\* that keeps more than one
C13_Witness ==
  /\ event_bus.max_history > 1
  /\ Len(bus_log.accepted) > event_bus.max_history
  /\ Len(event_bus.event_history) = event_bus.max_history
  /\ event_bus.event_history[1].id < event_bus.event_history[2].id

\* C14: within a single emit call the callbacks of the matching subscriptions
\* are invoked one after another in the order in which the subscriptions were
\* registered, whatever pattern each was registered under.  The callback of
\* the k-th subscribe call is k; stated for an emit during which nobody
\* subscribes or unsubscribes.
C14_RegistrationOrder ==
  ~emit_call.disturbed =>
    \A i, j \in 1..Len(emit_call.invoked) :
      i < j => emit_call.invoked[i] < emit_call.invoked[j]

\* this step is a callback raising inside emit
CallbackRaised == emit_call.pc = "callback" /\ emit_call'.raised # emit_call.raised

\* this step is the return of an emit that dispatched, with nobody having
\* subscribed or unsubscribed meanwhile
EmitReturned ==
  /\ emit_call' # emit_call
  /\ emit_call'.pc = "returned"
  /\ emit_call'.was_running
  /\ ~emit_call'.disturbed

\* the callbacks of the subscriptions that the event of the frame matches
MatchingCallbacks(b, f) ==
  {b.subscriptions[x[1]].subs[x[2]].callback : x \in Matching(b, f.event)}

\* C15: when a subscriber callback raises during emit, the exception is not
\* propagated to the emitter, and every other matching subscription's
\* callback is still invoked for that event.
C15_CallbackErrorIsolated ==
  [][/\ CallbackRaised /\ ~emit_call.disturbed => emit_call'.pc \in {"callback", "returned"}
     /\ EmitReturned /\ emit_call'.raised # {} =>
          SeqToSet(emit_call'.invoked) = MatchingCallbacks(event_bus', emit_call')]_vars

\* an emit has returned after a callback raised and a later one was invoked
C15_Witness ==
  /\ emit_call.pc = "returned"
  /\ ~emit_call.disturbed
  /\ \E i \in 1..Len(emit_call.invoked) :
       /\ emit_call.invoked[i] \in emit_call.raised
       /\ i < Len(emit_call.invoked)
       /\ emit_call.invoked[i + 1] \notin emit_call.raised

\* C16: on a running bus, emit returns the number of callbacks that ran for
\* the event, that is the number of subscriptions whose pattern matches the
\* event type and whose filters all match the event.
C16_EmitReturnsMatchCount ==
  [][EmitReturned =>
       /\ emit_call'.ret = Len(emit_call'.invoked)
       /\ emit_call'.ret = Cardinality(Matching(event_bus', emit_call'.event))]_vars

\* this step is a call of start
StartCalled == bus_log'.starts = bus_log.starts + 1

\* C17: start() on a bus that is already running, with no stop in between,
\* fails with AlreadyStarted.
C17_SecondStartFails ==
  [][StartCalled /\ event_bus.running =>
       bus_log'.start_result = "AlreadyStarted" /\ event_bus' = event_bus]_vars

(***************************************************************************)
(* Properties of the event filters of a node                               *)
(***************************************************************************)
\* a pattern denotes the texts obtained by putting some string, maybe empty,
\* in the place of each '*': cut[i] is the length of text used up by the
\* first i letters of the pattern
Denotes(pattern, text) ==
  \E cut \in [0..Len(pattern) -> 0..Len(text)] :
    /\ cut[0] = 0
    /\ cut[Len(pattern)] = Len(text)
    /\ \A i \in 1..Len(pattern) :
         IF pattern[i] = "*" THEN cut[i] >= cut[i - 1]
         ELSE cut[i] = cut[i - 1] + 1 /\ text[cut[i]] = pattern[i]

\* the condition is true of the payload: the field is there and compares so
ConditionHolds(condition, payload) ==
  \E i \in 1..Len(payload) :
    /\ payload[i].key = condition.field
    /\ \/ condition.op = ">" /\ payload[i].value > condition.value
       \/ condition.op = "===" /\ payload[i].value = condition.value
       \/ condition.op = "!==" /\ payload[i].value # condition.value

\* a filter of a node matches the event
FilterHolds(filter, event) ==
  /\ filter.event # None
  /\ Denotes(Letters(filter.event), Letters(event.type))
  /\ filter.condition # NoCondition => ConditionHolds(filter.condition, event.payload)

\* the filters that the node declares under either key
Declared(node) ==
  (IF "eventFilters" \in DOMAIN node THEN SeqToSet(node.eventFilters) ELSE {})
    \cup (IF "event_filters" \in DOMAIN node THEN SeqToSet(node.event_filters) ELSE {})

\* C18: a node that declares eventFilters is accepted for an event only if
\* at least one of its filters matches the event (the pattern matches the
\* type and the condition, when there is one, holds); a node that declares
\* no filters accepts every event.
C18_FilterOrSemantics ==
  filter_call.fn = "_node_accepts_event" =>
    /\ filter_call.ret =>
         \/ Declared(nodes[1]) = {}
         \/ \E filter \in Declared(nodes[1]) : FilterHolds(filter, filter_call.event)
    /\ Declared(nodes[1]) = {} => filter_call.ret

\* a node with two filters was accepted for an event that its first filter
\* does not match and its second, which has a condition, does; and the same
\* node would be refused for the event with a payload that fails the condition
C18_Witness ==
  /\ filter_call.fn = "_node_accepts_event"
  /\ filter_call.ret
  /\ "eventFilters" \in DOMAIN nodes[1]
  /\ Len(nodes[1].eventFilters) = 2
  /\ ~FilterHolds(nodes[1].eventFilters[1], filter_call.event)
  /\ FilterHolds(nodes[1].eventFilters[2], filter_call.event)
  /\ nodes[1].eventFilters[2].condition # NoCondition
  /\ ~NodeAcceptsEvent(nodes[1], [filter_call.event EXCEPT
                                    !.payload = <<[key |-> "amount", value |-> 50]>>])

(***************************************************************************)
(* Properties of the event queue                                           *)
(***************************************************************************)
\* this step is a call of put
PutCalled == queue_call'.puts = queue_call.puts + 1

\* C19: for an EventQueue of capacity C and any sequence of put and get,
\* qsize <= C in every reachable state; a put when qsize < C returns true and
\* appends the item; a put when qsize = C returns false, leaves the queued
\* items unchanged and increases dropped_count by exactly 1, so that
\* dropped_count always equals the number of puts that returned false.
C19_QueueCapacity ==
  [][/\ Len(event_queue'.items) <= event_queue'.max_size
     /\ event_queue'.dropped_count = queue_call'.refused
     /\ PutCalled /\ Len(event_queue.items) < event_queue.max_size =>
          /\ queue_call'.ret
          /\ event_queue'.items = Append(event_queue.items, queue_call'.item)
          /\ event_queue'.dropped_count = event_queue.dropped_count
     /\ PutCalled /\ Len(event_queue.items) = event_queue.max_size =>
          /\ ~queue_call'.ret
          /\ event_queue'.items = event_queue.items
          /\ event_queue'.dropped_count = event_queue.dropped_count + 1]_vars

\* a put was refused by a full queue of more than one item from which items
\* had been taken before
C19_Witness ==
  /\ queue_call.op = "put"
  /\ ~queue_call.ret
  /\ queue_call.gets > 0
  /\ event_queue.max_size > 1
  /\ Len(event_queue.items) = event_queue.max_size
  /\ event_queue.dropped_count = 1
  /\ queue_call.item \notin SeqToSet(event_queue.items)

(***************************************************************************)
(* Properties of the host callbacks                                        *)
(***************************************************************************)
\* this step is the status callback of the host raising in task t
StatusCallbackRaised(t) ==
  /\ task[t].pc = "announce"
  /\ limits.callbacks
  /\ ~limits'.callbacks

\* C20: a failure raised by a host log or status callback is swallowed by the
\* engine: the node that was announced is executed as if the callback had
\* returned, so that a linear run is not aborted, the workflow does not go to
\* status error and the nodes left for the event being processed execute.
C20_CallbackFailureSwallowed ==
  [][\A t \in TaskIds :
       StatusCallbackRaised(t) =>
         /\ task'[t].pc = "execute_wait"
         /\ task'[t].order = task[t].order
         /\ task'[t].i = task[t].i]_vars

(***************************************************************************)
(* Properties of start_workflow on malformed graphs                        *)
(***************************************************************************)
\* no nodes, a connection with an endpoint that is no node, or an id twice
Malformed(wd) ==
  \/ wd.nodes = <<>>
  \/ \E i \in 1..Len(wd.connections) :
       \/ ~InSeq(wd.connections[i].from, NodeIdList(wd.nodes))
       \/ ~InSeq(wd.connections[i].to, NodeIdList(wd.nodes))
  \/ ~NoDuplicates(NodeIdList(wd.nodes))

\* C21: start on a malformed graph surfaces a GraphError at start and the
\* workflow never enters status running.
C21_MalformedNeverRunning ==
  \A w \in DOMAIN running_workflows :
    Malformed(running_workflows[w].workflow_data) =>
      running_workflows[w].status # "running"

(***************************************************************************)
(* Properties of the teardown made by stop_workflow                        *)
(***************************************************************************)
\* the node instances in the table of w
TableOf(w) ==
  IF w \in DOMAIN node_instances
  THEN {node_instances[w][i].value : i \in 1..Len(node_instances[w])}
  ELSE {}

C28_LinearHasNoQueue ==
  \A w \in DOMAIN running_workflows :
    LET wd == running_workflows[w].workflow_data
    IN wd.nodes # <<>> /\ SourceNodeList(wd.nodes) = <<>> => w \notin DOMAIN event_queues

\* a step taken by the execution task of run g
ExecStep(g) == task'[Exec(g)] # task[Exec(g)]

\* the resources the supervisor holds for id w belong to a run later than g
Superseded(g, w) ==
  /\ g < starts
  /\ w \in DOMAIN event_buses
  /\ event_buses[w] > g

\* C30: after start_workflow on an id that is already running, the execution
\* task of the previous run has no effect on the new run: none of its steps
\* changes the node table, the running entry, the drainer entry, the bus, the
\* queue or the registry held for the id, and it enters no node's execute().
C30_OldRunHasNoEffect ==
  [][\A g \in Gens :
       ExecStep(g) /\ Superseded(g, task[Exec(g)].w) =>
         /\ UNCHANGED <<running_workflows, node_instances, queue_processors, event_buses,
                        event_queues, background_tasks, bus>>
         /\ task'[Exec(g)].pc # "execute_wait"]_vars

\* the graph has a node of a source type
HasSourceNode(wd) == \E i \in 1..Len(wd.nodes) : wd.nodes[i].type \in SOURCE_NODE_TYPES

\* C27: a run is handed to the event-driven runner exactly when its graph has
\* a node of a source type, and to the linear runner otherwise; the mode is
\* chosen once per run; a queue drainer is created only by the event-driven
\* runner, which also subscribes the dispatcher on the bus of the id and
\* leaves the running entry as it is; a run without source nodes never has a
\* drainer and executes no node twice.
C27_ModeBySourceNodes ==
  [][\A g \in Gens :
       LET f == task[Exec(g)]
           b == Get(event_buses, f.w)
       IN /\ f.pc = "choose_mode" /\ ExecStep(g) =>
               IF HasSourceNode(f.data)
               THEN task'[Exec(g)].pc = "source_loop"
               ELSE task'[Exec(g)].pc \in {"linear_loop", "done"}
          /\ f.pc \notin {"init_node", "choose_mode"} => task'[Exec(g)].pc # "choose_mode"
          /\ task[Proc(g)].pc = "none" /\ task'[Proc(g)].pc # "none" =>
               /\ HasSourceNode(f.data)
               /\ f.pc = "source_loop"
               /\ queue_processors'[f.w] = Proc(g)
               /\ b # NoObj => bus'[b].subs = bus[b].subs + 1
               /\ UNCHANGED running_workflows
          /\ f.pc \notin {"none", "done", "aborted"} /\ ~HasSourceNode(f.data) =>
               /\ task'[Proc(g)].pc = "none"
               /\ NoDuplicates(task'[Exec(g)].executed)
          /\ task'[Proc(g)].pc \notin {"none", "done"} =>
               HasSourceNode(task'[Proc(g)].data)]_vars

\* an event-driven run is listening: its task has returned, its drainer waits
\* on the queue, the dispatcher is subscribed and the workflow is running
C27_Witness ==
  \E g \in Gens :
    /\ HasSourceNode(task[Proc(g)].data)
    /\ task[Exec(g)].pc = "done"
    /\ task[Proc(g)].pc = "wait"
    /\ Get(queue_processors, "wf1") = Proc(g)
    /\ Get(event_buses, "wf1") = g
    /\ bus[g].subs = 1
    /\ "wf1" \in DOMAIN running_workflows
    /\ running_workflows["wf1"].status = "running"

\* C29: when the setup of a node raises during the initialisation, the
\* initialisation goes on with the next node (and after the last node with the
\* choice of the runner) and the running entry of the workflow is left as it
\* is.
C29_SetupFailureContinues ==
  [][\A g \in Gens :
       LET f == task[Exec(g)]
       IN f.pc = "setup_wait" /\ ExecStep(g) /\
          inst'[<<g, f.data.nodes[f.i].id>>].setup = "raised" =>
            /\ task'[Exec(g)].pc = "init_node"
            /\ task'[Exec(g)].i = f.i + 1
            /\ UNCHANGED running_workflows]_vars

\* C25: a character update made by node A while an event or a linear run is
\* processed is visible to every node executed after A within the same event
\* or run: the context of the node being executed reads a character mapping
\* that holds the key written by every node that updated earlier in it.
C25_CharacterUpdateVisible ==
  \A t \in TaskIds :
    task[t].pc = "execute_wait" =>
      \A a \in task[t].updated : a \in character[inst[task[t].runtime].character]

\* what the claim calls a forwarded type, among the types emitted in the model
Forwardable(event_type) ==
  event_type \in {"audio.play", "audio.", "avatar.move", "subtitle"}

\* the number of times the event callback was invoked with the event
ForwardCount(id) ==
  Cardinality({k \in 1..Len(bus_log.forwarded) : bus_log.forwarded[k] = id})

\* C26: with an event callback registered before the start, an event emitted
\* on the running bus of the workflow whose type matches audio.*, avatar.* or
\* is subtitle has caused exactly one invocation of the event callback when
\* emit ends, an event of any other type none, and no event is ever forwarded
\* twice.
C26_ForwardedOnce ==
  /\ \A k \in 1..Len(bus_log.accepted) :
       LET event == bus_log.accepted[k]
       IN /\ ForwardCount(event.id) <= 1
          /\ ~Forwardable(event.type) => ForwardCount(event.id) = 0
  /\ emit_call.pc \in {"returned", "raised"} /\ emit_call.was_running /\ bus_log.wired
       /\ Forwardable(emit_call.event.type)
     => ForwardCount(emit_call.event.id) = 1

\* a subtitle event was forwarded once on a bus that has other subscribers,
\* after an event of another type that was not
C26_Witness ==
  /\ emit_call.pc = "returned"
  /\ emit_call.event.type = "subtitle"
  /\ emit_call.event.id = 2
  /\ bus_log.wired
  /\ bus_log.subscribed > 0
  /\ bus_log.forwarded = <<2>>

\* the host is inside stop_workflow for an id that is running
StopRunning ==
  /\ task[Host].op = "stop"
  /\ task[Host].pc = "stop"
  /\ task[Host].w \in DOMAIN running_workflows

\* stop_workflow has returned for the id
StopReturned(w) == task[Host].pc = "idle" /\ w \in stopped

\* what a step does around stop_workflow: while stop awaits the queue
\* drainer, the drainer has a cancellation pending or has ended; a drainer
\* with a cancellation pending ends at its next step; a call for an id that
\* is not running returns at once and changes nothing
StopStep ==
  /\ task[Host].pc = "stop_await" =>
       (\/ task[task[Host].awaited].cancel
        \/ task[task[Host].awaited].pc = "done")
  /\ \A g \in Gens :
       (task[Proc(g)].cancel /\ task'[Proc(g)] # task[Proc(g)]) =>
         task'[Proc(g)].pc = "done"
  /\ (/\ task[Host].pc = "stop"
      /\ task[Host].op = "stop"
      /\ task[Host].w \notin DOMAIN running_workflows
      /\ task'[Host] # task[Host]) =>
         (/\ task'[Host] = HostIdle
          /\ UNCHANGED <<maps, objs>>
          /\ \A t \in TaskIds \ {Host} : task'[t] = task[t])

\* C24: stop_workflow on a running workflow always terminates: a call that
\* finds the id running returns in the end, the queue drainer it awaits
\* being cancelled and ending at the await it is suspended in, on the queue
\* or inside a node's execute(); a call for an id that is not running returns
\* at once and changes nothing.
C24_StopTerminates ==
  /\ \A w \in WorkflowIds : (StopRunning /\ task[Host].w = w) ~> StopReturned(w)
  /\ [][StopStep]_vars

\* stop_workflow returned after it cancelled a queue drainer that was in the
\* middle of a node's execute()
C24_Witness ==
  /\ StopReturned("wf1")
  /\ stop_calls = 1
  /\ \E g \in Gens :
       /\ task[Proc(g)].pc = "done"
       /\ \E n \in NodeIds : inst[<<g, n>>].torn = 1 /\ inst[<<g, n>>].type = "text-transform"
       /\ queue[g].processing

\* the workflow id a generation of objects (bus, queue, registry, runtimes)
\* was made for by start_workflow
Owner(g) == IF g \in Gens THEN task[Exec(g)].w ELSE None

\* the entry of workflow id w in a map of the executor differs between m and mp
EntryChanged(w, m, mp) ==
  \/ (w \in DOMAIN m) # (w \in DOMAIN mp)
  \/ w \in DOMAIN m /\ w \in DOMAIN mp /\ mp[w] # m[w]

\* the step changes what the executor holds for workflow id w: its entries
\* in the maps, or the bus, queue, runtimes, character or registry tasks made
\* for it
Changed(w) ==
  \/ EntryChanged(w, running_workflows, running_workflows')
  \/ EntryChanged(w, event_buses, event_buses')
  \/ EntryChanged(w, event_queues, event_queues')
  \/ EntryChanged(w, node_instances, node_instances')
  \/ EntryChanged(w, source_nodes, source_nodes')
  \/ EntryChanged(w, queue_processors, queue_processors')
  \/ EntryChanged(w, background_tasks, background_tasks')
  \/ \E g \in Gens :
       /\ Owner(g) = w \/ Owner(g)' = w
       /\ \/ Owner(g)' # Owner(g)
          \/ bus'[g] # bus[g]
          \/ queue'[g] # queue[g]
          \/ character'[g] # character[g]
          \/ \E n \in NodeIds : inst'[<<g, n>>] # inst[<<g, n>>]
  \/ \E b \in BgIds : bg'[b] # bg[b] /\ w \in {bg[b].w, bg'[b].w}

\* the step is one of workflow id w: a coroutine started for w moves, a task
\* created by a node of w changes, or an event emitted on a bus of w is put
\* in a queue of w
StepOf(w) ==
  \/ \E t \in TaskIds : task'[t] # task[t] /\ w \in {task[t].w, task'[t].w}
  \/ \E b \in BgIds : bg'[b] # bg[b] /\ w \in {bg[b].w, bg'[b].w}
  \/ /\ emitted_events' = emitted_events + 1
     /\ \A g \in Gens :
          (Owner(g) = w /\ queue'[g] # queue[g]) =>
            /\ Len(queue'[g].items) >= Len(queue[g].items)
            /\ \A i \in 1..Len(queue'[g].items) :
                 IF i <= Len(queue[g].items)
                 THEN queue'[g].items[i] = queue[g].items[i]
                 ELSE Owner(queue'[g].items[i].event.bus) = w

\* no bus, queue, registry or runtime is held for two workflow ids, and what
\* is held for an id was made for it
Unshared ==
  \A w \in WorkflowIds :
    /\ w \in DOMAIN event_buses => Owner(event_buses[w]) = w
    /\ w \in DOMAIN event_queues => Owner(event_queues[w]) = w
    /\ w \in DOMAIN background_tasks => Owner(background_tasks[w]) = w
    /\ w \in DOMAIN queue_processors => task[queue_processors[w]].w = w
    /\ w \in DOMAIN node_instances =>
         \A i \in 1..Len(node_instances[w]) :
           LET r == node_instances[w][i].value
               x == inst[r]
           IN /\ Owner(r[1]) = w
              /\ x.w = w
              /\ x.event_bus = NoObj \/ Owner(x.event_bus) = w
              /\ x.task_registry = NoObj \/ Owner(x.task_registry) = w
    /\ \A g \in Gens : \A i \in 1..Len(queue[g].items) :
         Owner(queue[g].items[i].event.bus) = Owner(g)

IsolatedStep == \A w \in WorkflowIds : Changed(w) => StepOf(w)

\* C22: workflows are isolated.  The objects held for a workflow id (bus,
\* queue, registry, runtimes) are held for no other id; a step of start, stop,
\* event emission or node execution changes the bus, queue, runtimes,
\* registry, status or map entries of a workflow only when it is a step of
\* that workflow; and every event in a workflow's queue was emitted on that
\* workflow's own bus.
C22_WorkflowsIsolated ==
  /\ []Unshared
  /\ [][IsolatedStep]_vars

\* two workflows run side by side, an event emitted in one is in its queue
\* while the queue of the other, whose drainer also runs, is empty
C22_Witness ==
  \E a, b \in WorkflowIds :
    /\ a # b
    /\ a \in DOMAIN event_queues /\ b \in DOMAIN event_queues
    /\ a \in DOMAIN queue_processors /\ b \in DOMAIN queue_processors
    /\ queue[event_queues[a]].items # <<>>
    /\ queue[event_queues[b]].items = <<>>
    /\ Get(event_buses, a) # Get(event_buses, b)

(***************************************************************************)
(* Properties of the downstream order with parallel connections            *)
(***************************************************************************)
OrderFromReturned == call.fn = "_get_execution_order_from"

\* C34: over an acyclic graph the order computed for an event of source S
\* holds every node reachable from S, S excepted, exactly once, also when
\* two nodes are joined by more than one connection.
C34_DownstreamOrderComplete ==
  OrderFromReturned /\ Acyclic =>
    /\ NoDuplicates(execution_order)
    /\ SeqToSet(execution_order) =
         Closure({b \in NodeIds : Edge(call.source_id, b)}) \ {call.source_id}

(***************************************************************************)
(* Properties of the graph algorithms over cyclic graphs                   *)
(***************************************************************************)
\* n is listed, and a is listed before it
ListedBefore(a, n) ==
  /\ InSeq(a, execution_order)
  /\ InSeq(n, execution_order)
  /\ IndexOf(a, execution_order) < IndexOf(n, execution_order)

Downstream(source_id) == Closure({b \in NodeIds : Edge(source_id, b)})

\* C40: on every graph, cyclic ones included, the reachability computation
\* and both execution-order computations return a list without repetition:
\* the reachability lists exactly the nodes reachable from the source, the
\* downstream order lists downstream nodes only, and the linear order lists
\* a reachable node only after every reachable node that feeds it, so that a
\* node on a cycle, whose in-degree never reaches 0, is left out.
C40_GraphAlgorithmsTerminate ==
  call.fn # "none" =>
    /\ NoDuplicates(execution_order)
    /\ call.fn = "_get_downstream_nodes" =>
         SeqToSet(execution_order) = Downstream(call.source_id)
    /\ call.fn = "_get_execution_order_from" =>
         SeqToSet(execution_order) \subseteq Downstream(call.source_id)
    /\ call.fn = "_get_execution_order" =>
         /\ SeqToSet(execution_order) \subseteq Closure(EntrySet)
         /\ \A n \in SeqToSet(execution_order) : \A a \in Closure(EntrySet) :
              Edge(a, n) => ListedBefore(a, n)
         /\ \A n \in SeqToSet(execution_order) : n \notin Downstream(n)

\* a cyclic graph: the linear order leaves out the reachable nodes of a cycle
C40_Witness ==
  /\ LinearOrderReturned
  /\ execution_order # <<>>
  /\ \E n \in Closure(EntrySet) : n \in Downstream(n) /\ ~InSeq(n, execution_order)

(***************************************************************************)
(* Properties of a start with a start_node_id                              *)
(***************************************************************************)
\* the nodes that can be reached from node s along the connections of wd,
\* s included
RECURSIVE ReachableFrom(_, _)
ReachableFrom(wd, S) ==
  LET next == S \cup {wd.connections[i].to :
                        i \in {j \in 1..Len(wd.connections) : wd.connections[j].from \in S}}
  IN IF next = S THEN S ELSE ReachableFrom(wd, next)

\* the run started with a start_node_id: the graph submitted and the set of
\* nodes reachable from the start node
SubgraphRun == limits.start_node_id # None

Submitted == limits.script[1]

Kept == ReachableFrom(Submitted, {limits.start_node_id})

\* C39: when start_node_id is given, the run uses exactly the nodes reachable
\* from that node, itself included, in their order, and exactly the
\* connections with both endpoints in that set; a node outside the set is
\* neither instantiated, set up nor executed, and every context of the run
\* holds the character mapping of the run.
C39_SubgraphRun ==
  SubgraphRun =>
    LET KeptNode(n) == n.id \in Kept
        KeptConnection(c) == c.from \in Kept /\ c.to \in Kept
    IN /\ \A w \in DOMAIN running_workflows :
            /\ running_workflows[w].workflow_data.nodes = SelectSeq(Submitted.nodes, KeptNode)
            /\ running_workflows[w].workflow_data.connections =
                 SelectSeq(Submitted.connections, KeptConnection)
       /\ \A g \in Gens :
            /\ task[Exec(g)].pc \notin {"none", "done", "aborted"} =>
                 /\ task[Exec(g)].data.nodes = SelectSeq(Submitted.nodes, KeptNode)
                 /\ task[Exec(g)].data.connections =
                      SelectSeq(Submitted.connections, KeptConnection)
            /\ task[Exec(g)].runtime # NoRuntime => task[Exec(g)].runtime[2] \in Kept
            /\ \A n \in NodeIds :
                 inst[<<g, n>>] # NoInst =>
                   /\ n \in Kept
                   /\ inst[<<g, n>>].character = g
       /\ \A w \in DOMAIN node_instances : \A i \in 1..Len(node_instances[w]) :
            node_instances[w][i].key \in Kept

\* a run started at n2 of a graph n1 -> n2 -> n3: n3 is being executed, n1
\* was left out with its connection
C39_Witness ==
  /\ SubgraphRun
  /\ limits.start_node_id = "n2"
  /\ Kept = {"n2", "n3"}
  /\ Len(Submitted.connections) = 2
  /\ \E g \in Gens :
       /\ task[Exec(g)].pc = "execute_wait"
       /\ task[Exec(g)].runtime[2] = "n3"
       /\ Len(task[Exec(g)].data.connections) = 1
       /\ inst[<<g, "n1">>] = NoInst

(***************************************************************************)
(* Properties of the removal of subscriptions                              *)
(***************************************************************************)
\* the subscriptions held under a pattern, in order
ListUnder(subscriptions, pattern) ==
  IF PatternIndex(subscriptions, pattern) = 0 THEN <<>>
  ELSE subscriptions[PatternIndex(subscriptions, pattern)].subs

\* the removal call r is to remove subscription x held under pattern
Removes(r, pattern, x) ==
  CASE r.op = "unsubscribe" -> pattern = r.event_type /\ x.callback = r.callback
    [] r.op = "unsubscribe_node" -> pattern = r.event_type /\ x.node_id = r.node_id
    [] r.op = "clear_subscriptions" -> r.node_id = None \/ x.node_id = r.node_id
    [] OTHER -> FALSE

\* the callbacks of the subscriptions of a list whose filters pass the event
RECURSIVE DueOfList(_, _)
DueOfList(subs, event) ==
  IF subs = <<>> THEN <<>>
  ELSE (IF FiltersPass(Head(subs), event) THEN <<Head(subs).callback>> ELSE <<>>)
       \o DueOfList(Tail(subs), event)

\* the callbacks an event is due to, pattern by pattern
RECURSIVE DueCallbacks(_, _)
DueCallbacks(subscriptions, event) ==
  IF subscriptions = <<>> THEN <<>>
  ELSE (IF PatternMatches(Head(subscriptions).pattern, event.type)
        THEN DueOfList(Head(subscriptions).subs, event)
        ELSE <<>>) \o DueCallbacks(Tail(subscriptions), event)

RemovalStep == bus_log'.unsubscribed = bus_log.unsubscribed + 1

\* the step is a removal call and leaves, under every pattern, the
\* subscriptions the call is not to remove, unchanged and in their order
ExactRemoval ==
  RemovalStep =>
    \A pattern \in RemovalPatterns \cup BusPatterns :
      LET Stays(x) == ~Removes(bus_log'.removal, pattern, x)
      IN ListUnder(event_bus'.subscriptions, pattern)
           = SelectSeq(ListUnder(event_bus.subscriptions, pattern), Stays)

\* the step ends an emit call, on a running bus, during which nobody
\* subscribed or unsubscribed: the callbacks invoked are those of the
\* subscriptions the bus holds
DeliveredToHeld ==
  (/\ emit_call' # emit_call
   /\ emit_call'.pc = "returned"
   /\ emit_call'.was_running
   /\ ~emit_call'.disturbed) =>
    emit_call'.invoked = DueCallbacks(event_bus.subscriptions, emit_call'.event)

\* C37: unsubscribe(pattern, callback) removes exactly the subscriptions
\* under the pattern with that callback, unsubscribe(pattern, node_id)
\* exactly those under the pattern owned by the node, clear_subscriptions(
\* node_id) exactly those owned by the node under every pattern and
\* clear_subscriptions() all of them; every other subscription is left as
\* it was, and an event emitted later invokes the callbacks of the
\* subscriptions that are left and no other.
C37_ExactRemoval == [][ExactRemoval /\ DeliveredToHeld]_vars

\* clear_subscriptions("n1") removed the subscription of n1 and left the
\* other, and the event emitted afterwards reached the other one only
C37_Witness ==
  /\ bus_log.removal.op = "clear_subscriptions"
  /\ bus_log.removal.node_id = "n1"
  /\ bus_log.removal.emits = 0
  /\ bus_log.subscribed = 2
  /\ emit_call.pc = "returned"
  /\ ~emit_call.disturbed
  /\ Len(emit_call.invoked) = 1
  /\ Len(ListUnder(event_bus.subscriptions, "a.*")) + Len(ListUnder(event_bus.subscriptions, "a.b")) = 1

(***************************************************************************)
(* Properties of the processing flag of the event queue                    *)
(***************************************************************************)
\* the queue processor of generation g is handling an event it took
Handling(g) == task[Proc(g)].pc \in {"node", "announce", "execute_wait"}

\* the queue processor of generation g waits on its queue, or is about to
Waiting(g) == task[Proc(g)].pc \in {"loop", "wait"} /\ task[Proc(g)].queue # NoObj

\* C38: the processing flag of the queue is true while the queue processor
\* handles an event it took from the queue, and false whenever the processor
\* waits on the queue again: after the nodes were processed, when the source
\* has no downstream node, and after an unexpected error.
C38_ProcessingFlag ==
  \A g \in Gens :
    /\ Handling(g) => queue[task[Proc(g)].queue].processing
    /\ Waiting(g) => ~queue[task[Proc(g)].queue].processing

(***************************************************************************)
(* Properties of the entries of the event queue                            *)
(***************************************************************************)
\* C36: every entry of a workflow's event queue carries the id of a source
\* node of the workflow's graph: an event that a node that is no source
\* emits while it is executed is not put in the queue.
C36_QueuedFromSourceNodes ==
  \A g \in Gens : \A i \in 1..Len(queue[g].items) :
    LET item == queue[g].items[i]
    IN inst[<<item.event.bus, item.source_node_id>>].type \in SOURCE_NODE_TYPES

(***************************************************************************)
(* Properties of the nodes skipped for an event                            *)
(***************************************************************************)
\* the nodes with a connection into node_id in the graph of the processor
Upstream(f, node_id) ==
  {f.data.connections[i].from :
     i \in {j \in 1..Len(f.data.connections) : f.data.connections[j].to = node_id}}

\* C35: while an event is processed, a node that has an inbound connection
\* and none of whose upstream nodes has stored outputs for the event (they
\* were skipped, failed, or are other sources) has not been executed and has
\* been given no status; so a node all of whose upstream nodes were skipped
\* is skipped too.
C35_SkippedWithoutInputs ==
  \A g \in Gens :
    LET f == task[Proc(g)]
    IN Handling(g) =>
         \A node_id \in NodeIds :
           (Upstream(f, node_id) # {} /\ Upstream(f, node_id) \cap f.node_outputs = {}) =>
             /\ ~InSeq(node_id, f.executed)
             /\ \A st \in f.status : st[1] # node_id
             /\ f.pc \in {"announce", "execute_wait"} => f.order[f.i] # node_id

\* n2 failed for the event, and n3, which n2 alone feeds, was passed over
C35_Witness ==
  \E g \in Gens :
    LET f == task[Proc(g)]
    IN /\ f.pc = "node"
       /\ f.order = <<"n2", "n3">>
       /\ f.i > Len(f.order)
       /\ <<"n2", "error">> \in f.status
       /\ ~InSeq("n3", f.executed)

(***************************************************************************)
(* Properties of the source events emitted while a run starts              *)
(***************************************************************************)
\* the entries a queue has taken so far plus the events it has counted as dropped
Accounted(q) == Len(queue[q].items) + queue[q].dropped

\* a source node emits an event: SourceEmit, which leaves the budgets alone
SourceEmits == emitted_events' = emitted_events + 1 /\ limits' = limits

\* C31: every timer.* or message.* event a source node emits on the bus of
\* its workflow once its setup has begun is enqueued for the queue processor
\* or counted in dropped_count of the queue.
C31_NoSourceEventLost ==
  [][SourceEmits =>
       \E q \in Gens :
         Len(queue'[q].items) + queue'[q].dropped > Accounted(q)]_vars

(***************************************************************************)
(* Properties of a linear run that is stopped                              *)
(***************************************************************************)
\* the execution task of run g calls execute of the node it announced
BeginsExecute(g) ==
  task[Exec(g)].pc = "announce" /\ task'[Exec(g)].pc = "execute_wait"

\* C32: in linear mode no node of a run begins execute once stop_workflow
\* has returned for the run, and a node whose teardown has been called is
\* never executed afterwards.
C32_NoExecuteAfterStop ==
  [][\A g \in Gens :
       BeginsExecute(g) =>
         /\ inst[task[Exec(g)].runtime].torn = 0
         /\ ~(starts = 1 /\ StopReturned(task[Exec(g)].w))]_vars

(***************************************************************************)
(* Properties of the lifecycle of a node instance                          *)
(***************************************************************************)
\* setup of the instance was called and has ended, by returning or by raising
SetupEnded(x) == inst[x].setup \in {"returned", "raised"}

\* a task calls execute of the instance
ExecuteBegins(x) ==
  \E t \in TaskIds :
    /\ task[t].pc = "announce"
    /\ task'[t].pc = "execute_wait"
    /\ task[t].runtime = x

\* C33: for every node instance of a run, setup is called once and has ended
\* before any execute of the instance and before its teardown is called, and
\* teardown is called at most once, whatever the interleaving of the
\* initialisation with stop_workflow.
C33_NodeLifecycle ==
  [][\A x \in InstIds :
       /\ SetupEnded(x) => inst'[x].setup = inst[x].setup
       /\ ExecuteBegins(x) => SetupEnded(x)
       /\ inst'[x].torn > inst[x].torn => SetupEnded(x) /\ inst[x].torn = 0]_vars

====
